---- MODULE Spec2Model ----
(***************************************************************************)
(* A model of anchorpy's dual-dialect IDL layer: the format adapter        *)
(* (coder/idl_compat.py), the layout derivation (coder/idl.py) and the     *)
(* account and event coders (coder/accounts.py, coder/event.py).           *)
(*                                                                         *)
(* Python values are modelled as records.  A record that stands for a      *)
(* Python object or dict carries a field "form": "obj" for an object with  *)
(* attributes, "map" for a dict.  Byte strings are sequences of 0..255.    *)
(* A Python exception is a result with ok = FALSE and the exception in err.*)
(***************************************************************************)
EXTENDS Integers, Sequences, FiniteSets, TLC

VARIABLES
    enumsCache,   \* idl.py: the module-level _enums_cache
    coder,        \* the coder constructed last (or the failure to)
    dual,         \* a second AccountsCoder, built from the other dialect
    res,          \* the last call made and what it returned
    discLog       \* every discriminator derivation made so far

vars == <<enumsCache, coder, dual, res, discLog>>

(***************************************************************************)
(* Bounds of the model.                                                    *)
(***************************************************************************)
MaxAccounts == 2      \* account records in an IDL
MaxEvents == 2        \* event records in an IDL
MaxTypes == 2         \* definitions in an IDL's types list
MaxPayload == 2       \* payload bytes after the discriminator of a frame
MaxLog == 2           \* discriminator derivations remembered
RecursionLimit == 16  \* nested layout calls before Python's RecursionError
MaxFields == 2        \* fields of a struct definition
MaxVariants == 3      \* variants of an enum definition
MaxDerive == 2        \* derivations of a layout in a row

(***************************************************************************)
(* Generic helpers.                                                        *)
(***************************************************************************)
Take(s, n) == SubSeq(s, 1, IF n < Len(s) THEN n ELSE Len(s))

Drop(s, n) == SubSeq(s, n + 1, Len(s))

SeqsUpTo(S, n) == UNION {[1..m -> S] : m \in 0..n}

(***************************************************************************)
(* hashlib.sha256(s).digest() on the strings the model hashes: the real    *)
(* 32-byte digests.                                                        *)
(***************************************************************************)
sha256(s) ==
    CASE s = "account:A" ->
           <<220, 250, 253, 102, 246, 28, 104, 176, 0, 42, 57, 117, 19, 39,
             203, 2, 237, 164, 36, 89, 200, 170, 98, 247, 138, 37, 50, 162,
             166, 69, 210, 195>>
      [] s = "account:B" ->
           <<104, 43, 194, 48, 15, 155, 75, 162, 38, 58, 132, 153, 121, 100,
             29, 112, 10, 47, 105, 45, 183, 40, 16, 111, 179, 249, 95, 108,
             3, 240, 14, 255>>
      [] s = "event:A" ->
           <<54, 85, 247, 15, 32, 145, 157, 153, 155, 106, 163, 30, 86, 177,
             251, 242, 251, 89, 228, 236, 21, 84, 57, 85, 9, 96, 178, 8, 85,
             111, 162, 27>>
      [] s = "event:B" ->
           <<89, 15, 98, 44, 6, 26, 165, 1, 212, 243, 58, 17, 44, 185, 107,
             223, 75, 212, 138, 209, 243, 199, 115, 242, 216, 80, 24, 137,
             147, 24, 118, 242>>

ACCOUNT_DISCRIMINATOR_SIZE == 8

EVENT_DISCRIMINATOR_SIZE == 8

\* A mutant of _account_discriminator: the event namespace.
AccountDiscriminatorWrongNamespace(name) ==
    Take(sha256("event:" \o name), ACCOUNT_DISCRIMINATOR_SIZE)

\* accounts.py: sha256(f"account:{name}".encode()).digest()[:8]
_account_discriminator(name) ==
    Take(sha256("account:" \o name), ACCOUNT_DISCRIMINATOR_SIZE)

\* event.py: sha256(f"event:{name}".encode()).digest()[:8]
_event_discriminator(name) ==
    Take(sha256("event:" \o name), EVENT_DISCRIMINATOR_SIZE)

(***************************************************************************)
(* IDL values.                                                             *)
(*                                                                         *)
(* IdlType: [k, nm, form, sub, n]                                          *)
(*   k = "simple"  : nm is the IdlTypeSimple member                        *)
(*   k = "vec" / "option" : sub = <<inner>>                                *)
(*   k = "array"   : sub = <<inner>>, n = length                           *)
(*   k = "defined" : type_.defined is a str (form "str"), an object with a *)
(*                   name ("obj"), a dict with 'name' ("map") or something *)
(*                   else ("bad"); nm is the name it carries               *)
(*   k = "other"   : a value that is none of the IdlType classes           *)
(***************************************************************************)
Simple(s) == [k |-> "simple", nm |-> s, form |-> "", sub |-> <<>>, n |-> 0]

TVec(t) == [k |-> "vec", nm |-> "", form |-> "", sub |-> <<t>>, n |-> 0]

TOption(t) == [k |-> "option", nm |-> "", form |-> "", sub |-> <<t>>, n |-> 0]

TArray(t, len) == [k |-> "array", nm |-> "", form |-> "", sub |-> <<t>>, n |-> len]

DefinedAs(form, name) == [k |-> "defined", nm |-> name, form |-> form, sub |-> <<>>, n |-> 0]

Defined(name) == DefinedAs("str", name)

NoType == [k |-> "other", nm |-> "", form |-> "", sub |-> <<>>, n |-> 0]

(***************************************************************************)
(* An element of a field list: an IdlField object ("objfield"), a dict     *)
(* field ("mapfield"; ty is what .get('ty') or .get('type') gives) or a    *)
(* bare IdlType ("type").                                                  *)
(***************************************************************************)
Field(name, ty) == [ik |-> "objfield", name |-> name, ty |-> ty]

MapField(name, ty) == [ik |-> "mapfield", name |-> name, ty |-> ty]

Bare(ty) == [ik |-> "type", name |-> "", ty |-> ty]

(***************************************************************************)
(* An enum variant: [form, name, vf, flds].  vf says what variant.fields   *)
(* is: "none" (None), "obj" (an object with .fields), "map" (a dict with   *)
(* 'fields'), "list" (a list).                                             *)
(***************************************************************************)
Variant(form, name, vf, flds) == [form |-> form, name |-> name, vf |-> vf, flds |-> flds]

(***************************************************************************)
(* The body of a type definition (typedef.ty): [form, kind, fields,        *)
(* variants, value].  kind "none" is Python's None.                        *)
(***************************************************************************)
TyStruct(form, fields) ==
    [form |-> form, kind |-> "struct", fields |-> fields, variants |-> <<>>, value |-> NoType]

TyEnum(form, variants) ==
    [form |-> form, kind |-> "enum", fields |-> <<>>, variants |-> variants, value |-> NoType]

TyAlias(form, value) ==
    [form |-> form, kind |-> "alias", fields |-> <<>>, variants |-> <<>>, value |-> value]

TyNone == [form |-> "obj", kind |-> "none", fields |-> <<>>, variants |-> <<>>, value |-> NoType]

(***************************************************************************)
(* A record of the accounts, events or types list:                         *)
(*   [form, name, body, ty, hasDisc, disc]                                 *)
(* body names the body-describing field the record carries ("ty", "type",  *)
(* "kind" or "none") and ty is that field's value.  hasDisc says whether   *)
(* the record has a discriminator attribute or entry, disc is its value.   *)
(***************************************************************************)
Rec(form, name, body, ty, hasDisc, disc) ==
    [form |-> form, name |-> name, body |-> body, ty |-> ty,
     hasDisc |-> hasDisc, disc |-> disc]

TypeDef(form, name, ty) == Rec(form, name, IF form = "obj" THEN "ty" ELSE "type", ty, FALSE, <<>>)

NoRec == Rec("obj", "", "none", TyNone, FALSE, <<>>)

(***************************************************************************)
(* Results of the adapter functions: a value or an exception.              *)
(***************************************************************************)
RecOk(r) == [ok |-> TRUE, err |-> "", rec |-> r]

RecErr(e) == [ok |-> FALSE, err |-> e, rec |-> NoRec]

(***************************************************************************)
(* idl_compat.py                                                           *)
(***************************************************************************)
\* Python truthiness of a list.
Truthy(seq) == Len(seq) > 0

\* The result of a discriminator getter: [some, val]; some = FALSE is None.
DiscNone == [some |-> FALSE, val |-> <<>>]

DiscSome(v) == [some |-> TRUE, val |-> v]

\* An IDL document as detect_idl_format reads it. metadata is
\* [kind, spec, named]: kind "absent" (no attribute), "none" (None), "obj" or
\* "map"; spec is "absent", "None" or a version; named tells whether a 'name'
\* is there too. address is "absent", "" or an address.
IdlDoc(form, metadata, address, instructions, accounts) ==
    [form |-> form, metadata |-> metadata, address |-> address,
     instructions |-> instructions, accounts |-> accounts]

Metadata(kind, spec, named) == [kind |-> kind, spec |-> spec, named |-> named]

\* bool(idl.metadata): None and the empty dict are false.
MetadataTruthy(metadata) ==
    \/ metadata.kind = "obj"
    \/ metadata.kind = "map" /\ (metadata.spec # "absent" \/ metadata.named)

\* hasattr(first, 'discriminator') and first.discriminator, on the first
\* record of a list.
FirstHasDiscriminator(records) ==
    /\ Len(records) > 0
    /\ records[1].form = "obj" /\ records[1].hasDisc /\ Truthy(records[1].disc)

detect_idl_format(idl) ==
    IF /\ idl.form = "obj" /\ idl.metadata.kind # "absent"
       /\ MetadataTruthy(idl.metadata)
       /\ idl.metadata.kind = "obj" /\ idl.metadata.spec # "absent"
    THEN "new"
    ELSE IF idl.form = "obj" /\ idl.address \notin {"absent", ""}
    THEN "new"
    ELSE IF idl.form = "obj" /\ FirstHasDiscriminator(idl.instructions)
    THEN "new"
    ELSE IF idl.form = "obj" /\ FirstHasDiscriminator(idl.accounts)
    THEN "new"
    ELSE "old"

get_account_discriminator(account) ==
    IF account.form = "obj" /\ account.hasDisc /\ Truthy(account.disc)
    THEN DiscSome(account.disc)
    ELSE IF account.form = "map" /\ account.hasDisc
         THEN DiscSome(account.disc)
         ELSE DiscNone

\* A mutant of get_instruction_discriminator: the attribute is returned
\* whenever it is there, empty or not.
GetInstructionDiscriminatorPresent(instruction) ==
    IF instruction.form = "obj" /\ instruction.hasDisc
    THEN DiscSome(instruction.disc)
    ELSE DiscNone

get_instruction_discriminator(instruction) ==
    IF instruction.form = "obj" /\ instruction.hasDisc /\ Truthy(instruction.disc)
    THEN DiscSome(instruction.disc)
    ELSE DiscNone

get_event_discriminator(event) ==
    IF event.form = "obj" /\ event.hasDisc /\ Truthy(event.disc)
    THEN DiscSome(event.disc)
    ELSE DiscNone

(***************************************************************************)
(* An instruction-account record: [form, writable, isMut, signer,          *)
(* isSigner].  Each flag is "absent" (no such attribute or entry) or the   *)
(* Python value it holds: "True", "False" or "None".                       *)
(***************************************************************************)
IxAccount(form, writable, isMut, signer, isSigner) ==
    [form |-> form, writable |-> writable, isMut |-> isMut,
     signer |-> signer, isSigner |-> isSigner]

\* bool(v) of a flag value.
PyBool(v) == v = "True"

\* hasattr(account, f): an object has its attributes; a dict has none of these
\* names, whatever its entries.
HasAttr(account, f) == account.form = "obj" /\ account[f] # "absent"

\* A mutant of get_account_writable: the legacy name is read first.
GetAccountWritableLegacyFirst(account) ==
    IF HasAttr(account, "isMut") THEN PyBool(account.isMut)
    ELSE IF HasAttr(account, "writable") THEN PyBool(account.writable)
    ELSE FALSE

get_account_writable(account) ==
    IF HasAttr(account, "writable") THEN PyBool(account.writable)
    ELSE IF HasAttr(account, "isMut") THEN PyBool(account.isMut)
    ELSE FALSE

get_account_signer(account) ==
    IF HasAttr(account, "signer") THEN PyBool(account.signer)
    ELSE IF HasAttr(account, "isSigner") THEN PyBool(account.isSigner)
    ELSE FALSE

\* A mutant of get_defined_type_name: an unrecognised format gives an empty
\* name instead of the error.
GetDefinedTypeNameLenient(type_defined) ==
    IF type_defined.form \in {"str", "obj", "map"}
    THEN [ok |-> TRUE, err |-> "", name |-> type_defined.nm]
    ELSE [ok |-> TRUE, err |-> "", name |-> ""]

\* The result of get_defined_type_name: a name or ValueError.  The argument
\* is a str (form "str"), an object with a name attribute ("obj"), a dict
\* with a 'name' entry ("map"), or anything else: an object without a name
\* ("objbare"), a dict without 'name' ("mapbare"), None ("none"), ...
get_defined_type_name(type_defined) ==
    IF type_defined.form \in {"str", "obj", "map"}
    THEN [ok |-> TRUE, err |-> "", name |-> type_defined.nm]
    ELSE [ok |-> FALSE, err |-> "Unknown defined type format", name |-> ""]

\* hasattr(account, f) for an object, f in account for a dict.
Carries(account, f) == account.body = f

\* bool(account.type): the body is not None.
TruthyBody(ty) == ty.kind # "none"

RECURSIVE FirstNamed(_, _, _)
\* The loop of get_account_type_definition over types, from index i.
FirstNamed(types, name, i) ==
    IF i > Len(types) THEN 0
    ELSE IF types[i].name = name THEN i
    ELSE FirstNamed(types, name, i + 1)

RECURSIVE LastNamed(_, _, _)
LastNamed(types, name, i) ==
    IF i < 1 THEN 0
    ELSE IF types[i].name = name THEN i
    ELSE LastNamed(types, name, i - 1)

\* The types argument: [some, list]; some = FALSE is None.
TypesNone == [some |-> FALSE, list |-> <<>>]

TypesOf(list) == [some |-> TRUE, list |-> list]

\* A mutant of get_account_type_definition: the types list is searched first.
GetAccountTypeDefinitionTypesFirst(account, types) ==
    IF types.some /\ FirstNamed(types.list, account.name, 1) # 0
    THEN RecOk(types.list[FirstNamed(types.list, account.name, 1)])
    ELSE IF account.body # "none" THEN RecOk(account)
    ELSE RecErr("Type definition not found for account")

\* A mutant of get_account_type_definition: the last definition of the name.
GetAccountTypeDefinitionLast(account, types) ==
    IF account.body # "none" /\ ~(account.form = "obj" /\ account.body = "type" /\ ~TruthyBody(account.ty))
    THEN RecOk(account)
    ELSE IF ~types.some THEN RecErr("Types array required for new format account")
    ELSE IF LastNamed(types.list, account.name, Len(types.list)) = 0
         THEN RecErr("Type definition not found for account")
         ELSE RecOk(types.list[LastNamed(types.list, account.name, Len(types.list))])

get_account_type_definition(account, types) ==
    IF Carries(account, "ty") THEN RecOk(account)
    ELSE IF account.form = "obj" /\ Carries(account, "type") /\ TruthyBody(account.ty)
         THEN RecOk(account)
    ELSE IF account.form = "map" /\ Carries(account, "type") THEN RecOk(account)
    ELSE IF Carries(account, "kind") THEN RecOk(account)
    ELSE IF ~types.some THEN RecErr("Types array required for new format account")
    ELSE LET i == FirstNamed(types.list, account.name, 1)
         IN  IF i = 0 THEN RecErr("Type definition not found for account")
             ELSE RecOk(types.list[i])

(***************************************************************************)
(* idl.py: layouts.  A Construct is a record [k, nm, sub, n]:              *)
(*   "prim"    a borsh_construct primitive, nm its name                    *)
(*   "Vec", "Option" : sub = <<inner>>;  "Array" : inner[n]                *)
(*   "Renamed" : nm / sub[1]                                               *)
(*   "CStruct", "TupleStruct" : sub = the members in order                 *)
(*   "DataclassStruct" : sub = <<the CStruct, the dataclass>>              *)
(*   "datacls" : make_dataclass(nm, names of sub); "dcfield" : one name    *)
(*   "Enum"    : the Enum named nm over the variants sub, in order         *)
(*   "unit"    : a variant without payload, nm its name                    *)
(***************************************************************************)
Con(k, nm, sub, n) == [k |-> k, nm |-> nm, sub |-> sub, n |-> n]

NoLayout == Con("none", "", <<>>, 0)

Renamed(name, lay) == Con("Renamed", name, <<lay>>, 0)

NoErr == [e |-> "", arg |-> ""]

Err(e, arg) == [e |-> e, arg |-> arg]

\* The result of a layout derivation: the layout or the exception raised, and
\* _enums_cache as the call leaves it.
LayOk(lay, cache) == [ok |-> TRUE, err |-> NoErr, lay |-> lay, cache |-> cache]

LayErr(err, cache) == [ok |-> FALSE, err |-> err, lay |-> NoLayout, cache |-> cache]

\* The members of IdlTypeSimple that FIELD_TYPE_MAP has a Construct for.
FieldTypeMapKeys ==
    {"Bool", "U8", "I8", "U16", "I16", "U32", "I32", "F32", "U64", "I64",
     "F64", "U128", "I128", "Bytes", "String", "PublicKey"}

FIELD_TYPE_MAP(s) == Con("prim", IF s = "PublicKey" THEN "BorshPubkey" ELSE s, <<>>, 0)

\* pyheck.snake on the field names of the model.
snake(s) ==
    CASE s = "myField" -> "my_field"
      [] s = "isOn" -> "is_on"
      [] OTHER -> s

\* keyword.kwlist
kwlist ==
    {"False", "None", "True", "and", "as", "assert", "async", "await",
     "break", "class", "continue", "def", "del", "elif", "else", "except",
     "finally", "for", "from", "global", "if", "import", "in", "is",
     "lambda", "nonlocal", "not", "or", "pass", "raise", "return", "try",
     "while", "with", "yield"}

DcField(item) ==
    LET field_name == snake(item.name)
    IN  Con("dcfield", IF field_name \in kwlist THEN field_name \o "_" ELSE field_name, <<>>, 0)

\* The result of making a dataclass: [ok, err, dc]; the class, or the
\* exception raised.
DcOk(dc) == [ok |-> TRUE, err |-> NoErr, dc |-> dc]

DcErr(err) == [ok |-> FALSE, err |-> err, dc |-> NoLayout]

\* The first member that make_dataclass rejects, 0 when there is none: a
\* name that is not an identifier, or one an earlier member has.
FirstRejected(members) ==
    IF \E j \in 1..Len(members) :
          members[j].nm = "" \/ \E i \in 1..(j - 1) : members[i].nm = members[j].nm
    THEN CHOOSE j \in 1..Len(members) :
            /\ members[j].nm = "" \/ \E i \in 1..(j - 1) : members[i].nm = members[j].nm
            /\ \A k \in 1..(j - 1) :
                  members[k].nm # "" /\ \A i \in 1..(k - 1) : members[i].nm # members[k].nm
    ELSE 0

\* make_dataclass(name, fields): TypeError for a member name that is not an
\* identifier or that is repeated.
_make_datacls(name, members) ==
    IF FirstRejected(members) = 0 THEN DcOk(Con("datacls", name, members, 0))
    ELSE IF members[FirstRejected(members)].nm = ""
    THEN DcErr(Err("TypeError", "Field names must be valid identifiers: ''"))
    ELSE DcErr(Err("TypeError",
                   "Field name duplicated: '" \o members[FirstRejected(members)].nm \o "'"))

\* The dataclass of a struct body: one field per IdlField or dict field; an
\* element that is neither is skipped.  The cache in front of it is keyed by
\* (name, str(typedef_type)), which determines the result.
_idl_typedef_ty_struct_to_dataclass_type(typedef_type, name) ==
    _make_datacls(name,
        [i \in 1..Len(SelectSeq(typedef_type.fields, LAMBDA f : f.ik # "type")) |->
            DcField(SelectSeq(typedef_type.fields, LAMBDA f : f.ik # "type")[i])])

\* The dataclass of a named enum variant: field.name is read of every
\* element, and an element without the attribute (a dict, a bare type) ends
\* the loop with AttributeError before the dataclass is made.
_idl_enum_fields_named_to_dataclass_type(fields, name) ==
    IF \E i \in 1..Len(fields) : fields[i].ik # "objfield"
    THEN DcErr(Err("AttributeError", "name"))
    ELSE _make_datacls(name, [i \in 1..Len(fields) |-> DcField(fields[i])])

\* The entry of _enums_cache under dict_key = (name, str(idl_enum)); str() of
\* the enum body is its content, so the body itself stands for it.
CacheHit(cache, name, idl_enum) == {c \in cache : c.name = name /\ c.enum = idl_enum}

CachePut(cache, name, idl_enum, lay) ==
    (cache \ CacheHit(cache, name, idl_enum))
        \cup {[name |-> name, enum |-> idl_enum, lay |-> lay]}

\* filtered: the definitions of types named defined, in order.
Filtered(types, defined) == SelectSeq(types, LAMBDA t : t.name = defined)

\* The layouts of a list of fields, types or variants, or the exception.
SeqOk(lays, cache) == [ok |-> TRUE, err |-> NoErr, lays |-> lays, cache |-> cache]

SeqErr(err, cache) == [ok |-> FALSE, err |-> err, lays |-> <<>>, cache |-> cache]

\* r wrapped in a Construct of kind k when r is a layout, r when it is an
\* exception.
Wrapped(r, k, nm, n) == IF r.ok THEN LayOk(Con(k, nm, <<r.lay>>, n), r.cache) ELSE r

RECURSIVE _type_layout(_, _, _, _)
RECURSIVE _field_layout(_, _, _, _)
RECURSIVE _typedef_layout_without_field_name(_, _, _, _)
RECURSIVE _handle_enum_variants(_, _, _, _, _)
RECURSIVE _handle_enum_variants_no_cache(_, _, _, _, _)
RECURSIVE FieldLayoutsFrom(_, _, _, _, _, _)
RECURSIVE TypeLayoutsFrom(_, _, _, _, _, _)
RECURSIVE VariantsFrom(_, _, _, _, _, _)

\* A mutant of FieldLayoutsNext: the layout of a field is put in front of
\* those of the fields before it.
FieldLayoutsNextPrepend(r, flds, i, acc, types, fuel) ==
    IF ~r.ok THEN SeqErr(r.err, r.cache)
    ELSE FieldLayoutsFrom(flds, i + 1, <<r.lay>> \o acc, types, r.cache, fuel)

\* The list comprehension goes on after element i gave r.
FieldLayoutsNext(r, flds, i, acc, types, fuel) ==
    IF ~r.ok THEN SeqErr(r.err, r.cache)
    ELSE FieldLayoutsFrom(flds, i + 1, Append(acc, r.lay), types, r.cache, fuel)

\* [_field_layout(f, types) for f in flds], left to right, from element i.
FieldLayoutsFrom(flds, i, acc, types, cache, fuel) ==
    IF i > Len(flds) THEN SeqOk(acc, cache)
    ELSE FieldLayoutsNext(_field_layout(flds[i], types, cache, fuel), flds, i, acc, types, fuel)

TypeLayoutsNext(r, flds, i, acc, types, fuel) ==
    IF ~r.ok THEN SeqErr(r.err, r.cache)
    ELSE TypeLayoutsFrom(flds, i + 1, Append(acc, r.lay), types, r.cache, fuel)

\* [_type_layout(t, types) for t in flds], left to right, from element i; an
\* element that is a field and no IdlType is not implemented.
TypeLayoutsFrom(flds, i, acc, types, cache, fuel) ==
    IF i > Len(flds) THEN SeqOk(acc, cache)
    ELSE TypeLayoutsNext(_type_layout(IF flds[i].ik = "type" THEN flds[i].ty ELSE NoType,
                                      types, cache, fuel),
                         flds, i, acc, types, fuel)

\* A mutant of _type_layout: the first definition of the name is taken,
\* however many there are.
TypeLayoutFirstMatch(type_, types, cache, fuel) ==
    IF fuel = 0 THEN LayErr(Err("RecursionError", ""), cache)
    ELSE CASE type_.k = "simple" ->
                IF type_.nm \in FieldTypeMapKeys
                THEN LayOk(FIELD_TYPE_MAP(type_.nm), cache)
                ELSE LayErr(Err("KeyError", type_.nm), cache)
           [] type_.k = "vec" ->
                Wrapped(_type_layout(type_.sub[1], types, cache, fuel - 1), "Vec", "", 0)
           [] type_.k = "option" ->
                Wrapped(_type_layout(type_.sub[1], types, cache, fuel - 1), "Option", "", 0)
           [] type_.k = "defined" ->
                LET d == get_defined_type_name(type_)
                    filtered == Filtered(types, d.name)
                IN  IF ~d.ok THEN LayErr(Err(d.err, ""), cache)
                    ELSE IF Len(types) = 0
                    THEN LayErr(Err("User defined types not provided", ""), cache)
                    ELSE IF Len(filtered) = 0
                    THEN LayErr(Err("Type not found", d.name), cache)
                    ELSE _typedef_layout_without_field_name(filtered[1], types, cache, fuel - 1)
           [] type_.k = "array" ->
                Wrapped(_type_layout(type_.sub[1], types, cache, fuel - 1), "Array", "", type_.n)
           [] OTHER -> LayErr(Err("Type not implemented yet", type_.nm), cache)

_type_layout(type_, types, cache, fuel) ==
    IF fuel = 0 THEN LayErr(Err("RecursionError", ""), cache)
    ELSE CASE type_.k = "simple" ->
                IF type_.nm \in FieldTypeMapKeys
                THEN LayOk(FIELD_TYPE_MAP(type_.nm), cache)
                ELSE LayErr(Err("KeyError", type_.nm), cache)
           [] type_.k = "vec" ->
                Wrapped(_type_layout(type_.sub[1], types, cache, fuel - 1), "Vec", "", 0)
           [] type_.k = "option" ->
                Wrapped(_type_layout(type_.sub[1], types, cache, fuel - 1), "Option", "", 0)
           [] type_.k = "defined" ->
                LET d == get_defined_type_name(type_)
                    filtered == Filtered(types, d.name)
                IN  IF ~d.ok THEN LayErr(Err(d.err, ""), cache)
                    ELSE IF Len(types) = 0
                    THEN LayErr(Err("User defined types not provided", ""), cache)
                    ELSE IF Len(filtered) # 1
                    THEN LayErr(Err("Type not found", d.name), cache)
                    ELSE _typedef_layout_without_field_name(filtered[1], types, cache, fuel - 1)
           [] type_.k = "array" ->
                Wrapped(_type_layout(type_.sub[1], types, cache, fuel - 1), "Array", "", type_.n)
           [] OTHER -> LayErr(Err("Type not implemented yet", type_.nm), cache)

_field_layout(field, types, cache, fuel) ==
    IF field.ik \notin {"objfield", "mapfield"}
    THEN LayErr(Err("Unknown field format", ""), cache)
    ELSE Wrapped(_type_layout(field.ty, types, cache, fuel),
                 "Renamed", IF field.name # "" THEN snake(field.name) ELSE "", 0)

\* variant.fields as the list flds the loop works on.
VariantFlds(v) == IF v.vf \in {"obj", "map", "list"} THEN v.flds ELSE <<>>

\* Named fields: flds is not empty and its first element is an IdlField or a
\* dict with 'name'.
NamedFields(flds) == Len(flds) > 0 /\ flds[1].ik \in {"objfield", "mapfield"}

\* The loop goes on after the payload of variant i gave fl: a CStruct and a
\* dataclass (which reads .name of every field) for named fields, a
\* TupleStruct otherwise.
VariantsNext(fl, vs, i, acc, types, fuel) ==
    IF ~fl.ok THEN fl
    ELSE IF NamedFields(VariantFlds(vs[i]))
            /\ ~_idl_enum_fields_named_to_dataclass_type(VariantFlds(vs[i]), vs[i].name).ok
    THEN SeqErr(_idl_enum_fields_named_to_dataclass_type(VariantFlds(vs[i]), vs[i].name).err,
                fl.cache)
    ELSE VariantsFrom(vs, i + 1,
             Append(acc, Renamed(vs[i].name,
                 Con(IF NamedFields(VariantFlds(vs[i])) THEN "CStruct" ELSE "TupleStruct",
                     "", fl.lays, 0))),
             types, fl.cache, fuel)

\* The loop of _handle_enum_variants_no_cache over enum_variants, from i.
VariantsFrom(vs, i, acc, types, cache, fuel) ==
    IF i > Len(vs) THEN SeqOk(acc, cache)
    ELSE IF vs[i].form \notin {"obj", "map"}
    THEN VariantsFrom(vs, i + 1, acc, types, cache, fuel)
    ELSE IF vs[i].vf = "none"
    THEN VariantsFrom(vs, i + 1, Append(acc, Con("unit", vs[i].name, <<>>, 0)), types, cache, fuel)
    ELSE VariantsNext(IF NamedFields(VariantFlds(vs[i]))
                      THEN FieldLayoutsFrom(VariantFlds(vs[i]), 1, <<>>, types, cache, fuel)
                      ELSE TypeLayoutsFrom(VariantFlds(vs[i]), 1, <<>>, types, cache, fuel),
                      vs, i, acc, types, fuel)

\* A mutant of EnumOf: the variants without payload come first.
EnumOfUnitsFirst(vr, name) ==
    IF vr.ok
    THEN LayOk(Con("Enum", name,
                   SelectSeq(vr.lays, LAMBDA v : v.k = "unit")
                       \o SelectSeq(vr.lays, LAMBDA v : v.k # "unit"), 0),
               vr.cache)
    ELSE LayErr(vr.err, vr.cache)

\* Enum(*variants, enum_name=name) over the layouts vr of the variants.
EnumOf(vr, name) ==
    IF vr.ok THEN LayOk(Con("Enum", name, vr.lays, 0), vr.cache) ELSE LayErr(vr.err, vr.cache)

\* The annotation pass that ends the function retypes the sumtype attributes
\* and leaves the Construct as it is.
_handle_enum_variants_no_cache(idl_enum, types, name, cache, fuel) ==
    EnumOf(VariantsFrom(idl_enum.variants, 1, <<>>, types, cache, fuel), name)

\* _enums_cache[dict_key] = result; return result
Stored(result, name, idl_enum) ==
    IF result.ok
    THEN LayOk(result.lay, CachePut(result.cache, name, idl_enum, result.lay))
    ELSE result

_handle_enum_variants(idl_enum, types, name, cache, fuel) ==
    IF CacheHit(cache, name, idl_enum) # {}
    THEN LayOk((CHOOSE c \in CacheHit(cache, name, idl_enum) : TRUE).lay, cache)
    ELSE Stored(_handle_enum_variants_no_cache(idl_enum, types, name, cache, fuel),
                name, idl_enum)

\* _DataclassStruct(CStruct(*field_layouts), datacls=datacls)
StructOf(fl, typedef_type, name) ==
    IF ~fl.ok THEN LayErr(fl.err, fl.cache)
    ELSE IF ~_idl_typedef_ty_struct_to_dataclass_type(typedef_type, name).ok
    THEN LayErr(_idl_typedef_ty_struct_to_dataclass_type(typedef_type, name).err, fl.cache)
    ELSE LayOk(Con("DataclassStruct", "",
                   <<Con("CStruct", "", fl.lays, 0),
                     _idl_typedef_ty_struct_to_dataclass_type(typedef_type, name).dc>>,
                   0),
               fl.cache)

\* typedef.ty of an object; typedef.get('ty') or typedef.get('type') of a dict.
TypedefType(typedef) == IF typedef.body \in {"ty", "type"} THEN typedef.ty ELSE TyNone

\* A mutant of _typedef_layout_without_field_name: an alias is recognised by
\* its class alone, a dict of kind 'alias' is an unknown type.
TypedefLayoutAliasByClass(typedef, types, cache, fuel) ==
    IF fuel = 0 THEN LayErr(Err("RecursionError", ""), cache)
    ELSE IF typedef.form = "obj" /\ typedef.body # "ty"
    THEN LayErr(Err("Unknown typedef format", ""), cache)
    ELSE CASE TypedefType(typedef).kind = "struct" ->
                StructOf(FieldLayoutsFrom(TypedefType(typedef).fields, 1, <<>>, types, cache, fuel - 1),
                         TypedefType(typedef), typedef.name)
           [] TypedefType(typedef).kind = "enum" ->
                _handle_enum_variants(TypedefType(typedef), types, typedef.name, cache, fuel - 1)
           [] TypedefType(typedef).kind = "alias" /\ TypedefType(typedef).form = "obj" ->
                _type_layout(TypedefType(typedef).value, types, cache, fuel - 1)
           [] TypedefType(typedef).kind = "none" ->
                LayErr(Err("AttributeError", "get"), cache)
           [] OTHER -> LayErr(Err("Unknown type", TypedefType(typedef).kind), cache)

_typedef_layout_without_field_name(typedef, types, cache, fuel) ==
    IF fuel = 0 THEN LayErr(Err("RecursionError", ""), cache)
    ELSE IF typedef.form = "obj" /\ typedef.body # "ty"
    THEN LayErr(Err("Unknown typedef format", ""), cache)
    ELSE CASE TypedefType(typedef).kind = "struct" ->
                StructOf(FieldLayoutsFrom(TypedefType(typedef).fields, 1, <<>>, types, cache, fuel - 1),
                         TypedefType(typedef), typedef.name)
           [] TypedefType(typedef).kind = "enum" ->
                _handle_enum_variants(TypedefType(typedef), types, typedef.name, cache, fuel - 1)
           [] TypedefType(typedef).kind = "alias" ->
                _type_layout(TypedefType(typedef).value, types, cache, fuel - 1)
           [] TypedefType(typedef).kind = "none" ->
                LayErr(Err("AttributeError", "get"), cache)
           [] OTHER -> LayErr(Err("Unknown type", TypedefType(typedef).kind), cache)

\* field_name / _typedef_layout_without_field_name(typedef, types)
_typedef_layout(typedef, types, field_name, cache, fuel) ==
    Wrapped(_typedef_layout_without_field_name(typedef, types, cache, fuel),
            "Renamed", field_name, 0)

(***************************************************************************)
(* construct / borsh_construct: what a layout parses and builds.  A Python *)
(* value is a record [k, i, nm, s]:                                        *)
(*   "int" i; "bool" i (1 is True); "none" None; "list" of s;              *)
(*   "container" : a Container, s its members, each a "member" nm = s[1];  *)
(*   "dataclass" : an instance of dataclass nm over the Container s[1];    *)
(*   "variant"   : variant nm (number i, from 0) of an Enum, payload s     *)
(***************************************************************************)
Val(k, i, nm, s) == [k |-> k, i |-> i, nm |-> nm, s |-> s]

VNone == Val("none", 0, "", <<>>)

VInt(i) == Val("int", i, "", <<>>)

VBool(b) == Val("bool", IF b THEN 1 ELSE 0, "", <<>>)

VList(s) == Val("list", 0, "", s)

ParseOk(v, rest) == [ok |-> TRUE, err |-> NoErr, val |-> v, rest |-> rest]

ParseErr(e) == [ok |-> FALSE, err |-> Err(e, ""), val |-> VNone, rest |-> <<>>]

BuildOk(bytes) == [ok |-> TRUE, err |-> NoErr, bytes |-> bytes]

BuildErr(e) == [ok |-> FALSE, err |-> Err(e, ""), bytes |-> <<>>]

\* Bytes of the fixed-width unsigned integers.
PrimWidth(nm) ==
    CASE nm \in {"U8", "Bool"} -> 1
      [] nm = "U16" -> 2
      [] nm = "U32" -> 4
      [] nm = "U64" -> 8
      [] OTHER -> 16

RECURSIVE LittleEndian(_, _)
LittleEndian(i, width) ==
    IF width = 0 THEN <<>> ELSE <<i % 256>> \o LittleEndian(i \div 256, width - 1)

RECURSIVE FromLittleEndian(_)
FromLittleEndian(bytes) ==
    IF Len(bytes) = 0 THEN 0 ELSE bytes[1] + 256 * FromLittleEndian(Tail(bytes))

RECURSIVE Pow256(_)
Pow256(width) == IF width = 0 THEN 1 ELSE 256 * Pow256(width - 1)

RECURSIVE ParseCon(_, _)
RECURSIVE ParseAll(_, _, _, _)
RECURSIVE ParseTimes(_, _, _, _)

\* The members lays[i..] parsed one after the other.
ParseAll(lays, i, acc, bytes) ==
    IF i > Len(lays) THEN ParseOk(VList(acc), bytes)
    ELSE LET r == ParseCon(lays[i], bytes)
         IN  IF ~r.ok THEN r
             ELSE ParseAll(lays, i + 1,
                           Append(acc, IF lays[i].k = "Renamed"
                                       THEN Val("member", 0, lays[i].nm, <<r.val>>)
                                       ELSE r.val),
                           r.rest)

\* n items of one layout.
ParseTimes(lay, n, acc, bytes) ==
    IF n = 0 THEN ParseOk(VList(acc), bytes)
    ELSE LET r == ParseCon(lay, bytes)
         IN  IF ~r.ok THEN r ELSE ParseTimes(lay, n - 1, Append(acc, r.val), r.rest)

ParseCon(lay, bytes) ==
    CASE lay.k = "prim" ->
           IF Len(bytes) < PrimWidth(lay.nm) THEN ParseErr("StreamError")
           ELSE LET i == FromLittleEndian(Take(bytes, PrimWidth(lay.nm)))
                IN  ParseOk(IF lay.nm = "Bool" THEN VBool(i # 0) ELSE VInt(i),
                            Drop(bytes, PrimWidth(lay.nm)))
      [] lay.k = "Renamed" -> ParseCon(lay.sub[1], bytes)
      [] lay.k = "Option" ->
           IF Len(bytes) < 1 THEN ParseErr("StreamError")
           ELSE IF bytes[1] = 0 THEN ParseOk(VNone, Tail(bytes))
           ELSE ParseCon(lay.sub[1], Tail(bytes))
      [] lay.k = "Vec" ->
           IF Len(bytes) < 4 THEN ParseErr("StreamError")
           ELSE ParseTimes(lay.sub[1], FromLittleEndian(Take(bytes, 4)), <<>>, Drop(bytes, 4))
      [] lay.k = "Array" -> ParseTimes(lay.sub[1], lay.n, <<>>, bytes)
      [] lay.k = "TupleStruct" -> ParseAll(lay.sub, 1, <<>>, bytes)
      [] lay.k = "CStruct" ->
           LET r == ParseAll(lay.sub, 1, <<>>, bytes)
           IN  IF r.ok THEN ParseOk(Val("container", 0, "", r.val.s), r.rest) ELSE r
      [] lay.k = "DataclassStruct" ->
           LET r == ParseCon(lay.sub[1], bytes)
           IN  IF r.ok THEN ParseOk(Val("dataclass", 0, lay.sub[2].nm, <<r.val>>), r.rest) ELSE r
      [] lay.k = "Enum" ->
           IF Len(bytes) < 1 THEN ParseErr("StreamError")
           ELSE IF bytes[1] >= Len(lay.sub) THEN ParseErr("SwitchError")
           ELSE LET v == lay.sub[bytes[1] + 1]
                IN  IF v.k = "unit" THEN ParseOk(Val("variant", bytes[1], v.nm, <<>>), Tail(bytes))
                    ELSE LET r == ParseCon(v.sub[1], Tail(bytes))
                         IN  IF r.ok
                             THEN ParseOk(Val("variant", bytes[1], v.nm, <<r.val>>), r.rest)
                             ELSE r
      [] OTHER -> ParseErr("NotImplementedError")

RECURSIVE BuildCon(_, _)
RECURSIVE BuildAll(_, _, _, _)
RECURSIVE BuildEach(_, _, _, _)

\* The value vals holds for lays[i]: the member of that name for a named
\* layout, the value at its place otherwise; 0 if there is none.
ValueFor(lays, vals, i) ==
    IF lays[i].k = "Renamed"
    THEN IF \E j \in 1..Len(vals) : vals[j].k = "member" /\ vals[j].nm = lays[i].nm
         THEN CHOOSE j \in 1..Len(vals) : vals[j].k = "member" /\ vals[j].nm = lays[i].nm
         ELSE 0
    ELSE IF i <= Len(vals) THEN i ELSE 0

\* The members lays[i..] built from the values vals.
BuildAll(lays, vals, i, acc) ==
    IF i > Len(lays) THEN BuildOk(acc)
    ELSE IF ValueFor(lays, vals, i) = 0 THEN BuildErr("KeyError")
    ELSE LET r == BuildCon(lays[i],
                           IF lays[i].k = "Renamed"
                           THEN vals[ValueFor(lays, vals, i)].s[1]
                           ELSE vals[ValueFor(lays, vals, i)])
         IN  IF ~r.ok THEN r ELSE BuildAll(lays, vals, i + 1, acc \o r.bytes)

\* Every value of vals[i..] built with one layout.
BuildEach(lay, vals, i, acc) ==
    IF i > Len(vals) THEN BuildOk(acc)
    ELSE LET r == BuildCon(lay, vals[i])
         IN  IF ~r.ok THEN r ELSE BuildEach(lay, vals, i + 1, acc \o r.bytes)

BuildCon(lay, v) ==
    CASE lay.k = "prim" ->
           IF lay.nm = "Bool"
           THEN IF v.k = "bool" THEN BuildOk(<<v.i>>) ELSE BuildErr("FormatFieldError")
           ELSE IF v.k = "int" /\ v.i >= 0 /\ v.i < Pow256(PrimWidth(lay.nm))
                THEN BuildOk(LittleEndian(v.i, PrimWidth(lay.nm)))
                ELSE BuildErr("FormatFieldError")
      [] lay.k = "Renamed" -> BuildCon(lay.sub[1], v)
      [] lay.k = "Option" ->
           IF v.k = "none" THEN BuildOk(<<0>>)
           ELSE LET r == BuildCon(lay.sub[1], v)
                IN  IF r.ok THEN BuildOk(<<1>> \o r.bytes) ELSE r
      [] lay.k = "Vec" ->
           IF v.k # "list" THEN BuildErr("TypeError")
           ELSE LET r == BuildEach(lay.sub[1], v.s, 1, <<>>)
                IN  IF r.ok THEN BuildOk(LittleEndian(Len(v.s), 4) \o r.bytes) ELSE r
      [] lay.k = "Array" ->
           IF v.k # "list" \/ Len(v.s) # lay.n THEN BuildErr("RangeError")
           ELSE BuildEach(lay.sub[1], v.s, 1, <<>>)
      [] lay.k = "TupleStruct" ->
           IF v.k # "list" THEN BuildErr("TypeError") ELSE BuildAll(lay.sub, v.s, 1, <<>>)
      [] lay.k = "CStruct" ->
           IF v.k # "container" THEN BuildErr("TypeError") ELSE BuildAll(lay.sub, v.s, 1, <<>>)
      [] lay.k = "DataclassStruct" ->
           IF v.k = "container" THEN BuildCon(lay.sub[1], v)
           ELSE IF v.k # "dataclass" THEN BuildErr("TypeError")
           ELSE BuildCon(lay.sub[1], v.s[1])
      [] lay.k = "Enum" ->
           IF v.k # "variant" \/ v.i >= Len(lay.sub) THEN BuildErr("TypeError")
           ELSE LET var == lay.sub[v.i + 1]
                IN  IF var.nm # v.nm THEN BuildErr("TypeError")
                    ELSE IF var.k = "unit" THEN BuildOk(<<v.i>>)
                    ELSE IF Len(v.s) # 1 THEN BuildErr("TypeError")
                    ELSE LET r == BuildCon(var.sub[1], v.s[1])
                         IN  IF r.ok THEN BuildOk(<<v.i>> \o r.bytes) ELSE r
      [] OTHER -> BuildErr("NotImplementedError")

(***************************************************************************)
(* A Python dict: its items in insertion order, each [key, val].           *)
(***************************************************************************)
DictHas(d, k) == \E i \in 1..Len(d) : d[i].key = k

DictGet(d, k) == d[CHOOSE i \in 1..Len(d) : d[i].key = k].val

\* d[k] = v: a key already there keeps its place and takes the new value.
DictSet(d, k, v) ==
    IF DictHas(d, k)
    THEN [i \in 1..Len(d) |-> IF d[i].key = k THEN [key |-> k, val |-> v] ELSE d[i]]
    ELSE Append(d, [key |-> k, val |-> v])

DictKeys(d) == {d[i].key : i \in 1..Len(d)}

DictVals(d) == {d[i].val : i \in 1..Len(d)}

RECURSIVE DictInvertFrom(_, _, _)
\* {v: k for k, v in d.items()}, from item i.
DictInvertFrom(d, i, acc) ==
    IF i > Len(d) THEN acc
    ELSE DictInvertFrom(d, i + 1, DictSet(acc, d[i].val, d[i].key))

\* bytes(disc_list)
IsByteList(list) == \A i \in 1..Len(list) : list[i] \in 0..255

(***************************************************************************)
(* accounts.py: AccountsCoder.  An IDL is [accounts, events, types].       *)
(***************************************************************************)
Idl(accounts, events, types) == [accounts |-> accounts, events |-> events, types |-> types]

NoCoder == [kind |-> "none", st |-> "none"]

CoderErr(kind, idl, err, cache) ==
    [kind |-> kind, st |-> "failed", idl |-> idl, err |-> err, cache |-> cache]

RECURSIVE AccountsLayoutFrom(_, _, _, _)
\* The loop goes on after the layout of account i gave r.
AccountsLayoutNext(r, idl, i, layouts) ==
    IF ~r.ok THEN SeqErr(r.err, r.cache)
    ELSE AccountsLayoutFrom(idl, i + 1, DictSet(layouts, idl.accounts[i].name, r.lay), r.cache)

\* The first loop of __init__: self._accounts_layout, from account i.
AccountsLayoutFrom(idl, i, layouts, cache) ==
    IF i > Len(idl.accounts) THEN SeqOk(layouts, cache)
    ELSE LET acc == idl.accounts[i]
             type_def == get_account_type_definition(acc, TypesOf(idl.types))
         IN  IF ~type_def.ok THEN SeqErr(Err(type_def.err, acc.name), cache)
             ELSE AccountsLayoutNext(
                      _typedef_layout(type_def.rec, idl.types, acc.name, cache, RecursionLimit),
                      idl, i, layouts)

\* The discriminator __init__ registers for one account record.
AccountDiscriminatorOf(acc) ==
    LET disc_list == get_account_discriminator(acc)
    IN  IF disc_list.some /\ Truthy(disc_list.val)
        THEN [ok |-> IsByteList(disc_list.val), disc |-> disc_list.val]
        ELSE [ok |-> TRUE, disc |-> _account_discriminator(acc.name)]

RECURSIVE AccNameToDiscriminatorFrom(_, _, _)
\* The second loop of __init__: self.acc_name_to_discriminator, from account i.
AccNameToDiscriminatorFrom(accounts, i, acc) ==
    IF i > Len(accounts) THEN [ok |-> TRUE, dict |-> acc]
    ELSE LET d == AccountDiscriminatorOf(accounts[i])
         IN  IF ~d.ok THEN [ok |-> FALSE, dict |-> <<>>]
             ELSE AccNameToDiscriminatorFrom(accounts, i + 1, DictSet(acc, accounts[i].name, d.disc))

\* discriminator_to_typedef_layout
DiscriminatorToLayout(n2d, layouts) ==
    LET inv == DictInvertFrom(n2d, 1, <<>>)
    IN  [i \in 1..Len(inv) |-> [key |-> inv[i].key, val |-> DictGet(layouts, inv[i].val)]]

\* The coder over the layouts l and the discriminators n2d.
AccountsCoderOf(l, n2d, idl) ==
    IF ~l.ok THEN CoderErr("accounts", idl, l.err, l.cache)
    ELSE IF ~n2d.ok THEN CoderErr("accounts", idl, Err("ValueError", "bytes"), l.cache)
    ELSE [kind |-> "accounts", st |-> "ok", idl |-> idl, cache |-> l.cache,
          _accounts_layout |-> l.lays,
          acc_name_to_discriminator |-> n2d.dict,
          discriminator_to_acc_name |-> DictInvertFrom(n2d.dict, 1, <<>>),
          discriminator_to_layout |-> DiscriminatorToLayout(n2d.dict, l.lays)]

\* AccountsCoder(idl), with _enums_cache as it stands: the coder, or the
\* exception, and the cache afterwards.
AccountsCoderInit(idl, cache) ==
    AccountsCoderOf(AccountsLayoutFrom(idl, 1, <<>>, cache),
                    AccNameToDiscriminatorFrom(idl.accounts, 1, <<>>), idl)

\* The subcon: Sequence("discriminator" / Bytes(size), Switch(this.discriminator,
\* cases)); a key that is no case parses as Pass, which gives None.
SubconParse(cases, size, obj) ==
    IF Len(obj) < size THEN ParseErr("StreamError")
    ELSE LET disc == Take(obj, size)
         IN  IF DictHas(cases, disc)
             THEN ParseCon(DictGet(cases, disc), Drop(obj, size))
             ELSE ParseOk(VNone, Drop(obj, size))

SubconBuild(cases, size, disc, data) ==
    IF Len(disc) # size THEN BuildErr("StreamError")
    ELSE LET r == IF DictHas(cases, disc) THEN BuildCon(DictGet(cases, disc), data)
                  ELSE BuildOk(<<>>)
         IN  IF r.ok THEN BuildOk(disc \o r.bytes) ELSE r

\* The result of a parse: AccountToSerialize(data, name), Event(data, name),
\* None (found = FALSE) or the exception.
Parsed(name, data) == [ok |-> TRUE, err |-> NoErr, found |-> TRUE, name |-> name, data |-> data]

ParsedNone == [ok |-> TRUE, err |-> NoErr, found |-> FALSE, name |-> "", data |-> VNone]

ParsedErr(err) == [ok |-> FALSE, err |-> err, found |-> FALSE, name |-> "", data |-> VNone]

\* A mutant of AccountsCoderParse: an unknown discriminator gives None.
AccountsCoderParseLenient(c, obj) ==
    LET r == SubconParse(c.discriminator_to_layout, ACCOUNT_DISCRIMINATOR_SIZE, obj)
        disc == Take(obj, ACCOUNT_DISCRIMINATOR_SIZE)
    IN  IF ~r.ok THEN ParsedErr(r.err)
        ELSE IF ~DictHas(c.discriminator_to_acc_name, disc) THEN ParsedNone
        ELSE Parsed(DictGet(c.discriminator_to_acc_name, disc), r.val)

\* AccountsCoder.parse(obj): the subcon's parse, then _decode.
AccountsCoderParse(c, obj) ==
    LET r == SubconParse(c.discriminator_to_layout, ACCOUNT_DISCRIMINATOR_SIZE, obj)
        disc == Take(obj, ACCOUNT_DISCRIMINATOR_SIZE)
    IN  IF ~r.ok THEN ParsedErr(r.err)
        ELSE IF ~DictHas(c.discriminator_to_acc_name, disc)
        THEN ParsedErr(Err("KeyError", ""))
        ELSE Parsed(DictGet(c.discriminator_to_acc_name, disc), r.val)

\* AccountsCoder.decode(obj): self.parse(obj).data
AccountsCoderDecode(c, obj) ==
    IF AccountsCoderParse(c, obj).ok
    THEN [ok |-> TRUE, err |-> NoErr, data |-> AccountsCoderParse(c, obj).data]
    ELSE [ok |-> FALSE, err |-> AccountsCoderParse(c, obj).err, data |-> VNone]

\* AccountsCoder.build(AccountToSerialize(data, name)): _encode, then the
\* subcon's build.
AccountsCoderBuild(c, name, data) ==
    IF ~DictHas(c.acc_name_to_discriminator, name) THEN BuildErr("KeyError")
    ELSE SubconBuild(c.discriminator_to_layout, ACCOUNT_DISCRIMINATOR_SIZE,
                     DictGet(c.acc_name_to_discriminator, name), data)

(***************************************************************************)
(* event.py: EventCoder.  An event record carries its fields in body       *)
(* "fields" (ty a struct body over them), or has none (body "none").       *)
(***************************************************************************)
EventRec(form, name, hasFields, fields, hasDisc, disc) ==
    Rec(form, name, IF hasFields THEN "fields" ELSE "none",
        IF hasFields THEN TyStruct("obj", fields) ELSE TyNone, hasDisc, disc)

\* IdlField(name=snake(f.name), docs=None, ty=f.ty) for f in event_fields
SnakeFields(fields) == [i \in 1..Len(fields) |-> Field(snake(fields[i].name), fields[i].ty)]

\* A mutant of _event_layout: an event without fields and without a
\* definition of its name in types is an error.
EventLayoutStrict(event, idl, cache) ==
    IF event.body = "none"
    THEN IF FirstNamed(idl.types, event.name, 1) # 0
         THEN _typedef_layout_without_field_name(idl.types[FirstNamed(idl.types, event.name, 1)],
                                                 idl.types, cache, RecursionLimit)
         ELSE LayErr(Err("ValueError", event.name), cache)
    ELSE IF \E j \in 1..Len(event.ty.fields) : event.ty.fields[j].ik # "objfield"
    THEN LayErr(Err("AttributeError", "name"), cache)
    ELSE _typedef_layout(TypeDef("obj", event.name, TyStruct("obj", SnakeFields(event.ty.fields))),
                         idl.types, event.name, cache, RecursionLimit)

_event_layout(event, idl, cache) ==
    IF event.body = "none"
    THEN IF FirstNamed(idl.types, event.name, 1) # 0
         THEN _typedef_layout_without_field_name(idl.types[FirstNamed(idl.types, event.name, 1)],
                                                 idl.types, cache, RecursionLimit)
         ELSE _typedef_layout(TypeDef("obj", event.name, TyStruct("obj", <<>>)),
                              idl.types, event.name, cache, RecursionLimit)
    ELSE IF \E j \in 1..Len(event.ty.fields) : event.ty.fields[j].ik # "objfield"
    THEN LayErr(Err("AttributeError", "name"), cache)
    ELSE _typedef_layout(TypeDef("obj", event.name, TyStruct("obj", SnakeFields(event.ty.fields))),
                         idl.types, event.name, cache, RecursionLimit)

RECURSIVE EventLayoutsFrom(_, _, _, _)
EventLayoutsNext(r, idl, i, layouts) ==
    IF ~r.ok THEN SeqErr(r.err, r.cache)
    ELSE EventLayoutsFrom(idl, i + 1, DictSet(layouts, idl.events[i].name, r.lay), r.cache)

\* The first loop of __init__: layouts, from event i.
EventLayoutsFrom(idl, i, layouts, cache) ==
    IF i > Len(idl.events) THEN SeqOk(layouts, cache)
    ELSE EventLayoutsNext(_event_layout(idl.events[i], idl, cache), idl, i, layouts)

\* The discriminator __init__ registers for one event record.
EventDiscriminatorOf(event) ==
    LET disc_list == get_event_discriminator(event)
    IN  IF disc_list.some /\ Truthy(disc_list.val)
        THEN [ok |-> IsByteList(disc_list.val), disc |-> disc_list.val]
        ELSE [ok |-> TRUE, disc |-> _event_discriminator(event.name)]

RECURSIVE EventDiscriminatorsFrom(_, _, _)
\* The second loop of __init__: self.discriminators, from event i.
EventDiscriminatorsFrom(events, i, acc) ==
    IF i > Len(events) THEN [ok |-> TRUE, dict |-> acc]
    ELSE LET d == EventDiscriminatorOf(events[i])
         IN  IF ~d.ok THEN [ok |-> FALSE, dict |-> <<>>]
             ELSE EventDiscriminatorsFrom(events, i + 1, DictSet(acc, d.disc, events[i].name))

\* The coder over the layouts l and the discriminators d.
EventCoderOf(l, d, idl) ==
    IF ~l.ok THEN CoderErr("events", idl, l.err, l.cache)
    ELSE IF ~d.ok THEN CoderErr("events", idl, Err("ValueError", "bytes"), l.cache)
    ELSE [kind |-> "events", st |-> "ok", idl |-> idl, cache |-> l.cache,
          layouts |-> l.lays,
          discriminators |-> d.dict,
          discriminator_to_layout |->
              [i \in 1..Len(d.dict) |->
                  [key |-> d.dict[i].key, val |-> DictGet(l.lays, d.dict[i].val)]]]

\* EventCoder(idl), with _enums_cache as it stands.
EventCoderInit(idl, cache) ==
    EventCoderOf(EventLayoutsFrom(idl, 1, <<>>, cache),
                 EventDiscriminatorsFrom(idl.events, 1, <<>>), idl)

\* A mutant of EventCoderParse: an unknown discriminator raises.
EventCoderParseStrict(c, obj) ==
    LET r == SubconParse(c.discriminator_to_layout, EVENT_DISCRIMINATOR_SIZE, obj)
        disc == Take(obj, EVENT_DISCRIMINATOR_SIZE)
    IN  IF ~r.ok THEN ParsedErr(r.err)
        ELSE IF ~DictHas(c.discriminators, disc) THEN ParsedErr(Err("KeyError", ""))
        ELSE Parsed(DictGet(c.discriminators, disc), r.val)

\* EventCoder.parse(obj): the subcon's parse, then _decode.
EventCoderParse(c, obj) ==
    LET r == SubconParse(c.discriminator_to_layout, EVENT_DISCRIMINATOR_SIZE, obj)
        disc == Take(obj, EVENT_DISCRIMINATOR_SIZE)
    IN  IF ~r.ok THEN ParsedErr(r.err)
        ELSE IF ~DictHas(c.discriminators, disc) THEN ParsedNone
        ELSE Parsed(DictGet(c.discriminators, disc), r.val)

(***************************************************************************)
(* The inputs of the model.                                                *)
(***************************************************************************)
U8 == Simple("U8")

Bool == Simple("Bool")

StructX == TyStruct("obj", <<Field("x", U8)>>)

StructXY == TyStruct("obj", <<Field("x", U8), Field("myField", Bool)>>)

StructRefE == TyStruct("obj", <<Field("x", Defined("E"))>>)

MapStructX == TyStruct("map", <<MapField("x", U8)>>)

EnumE ==
    TyEnum("obj", <<Variant("obj", "V0", "none", <<>>),
                    Variant("obj", "V1", "obj", <<Bare(U8)>>),
                    Variant("obj", "V2", "obj", <<Field("x", Bool)>>)>>)

\* Precomputed discriminators: a full one, a short one, and the value
\* derived for account A.
D1 == <<1, 2, 3, 4, 5, 6, 7, 8>>

DShort == <<1, 2, 3>>

DerivedA == <<220, 250, 253, 102, 246, 28, 104, 176>>

DZero == <<0, 0, 0, 0, 0, 0, 0, 0>>

AccountPool ==
    {Rec("obj", "A", "ty", StructX, FALSE, <<>>),
     Rec("obj", "B", "ty", StructX, TRUE, DerivedA),
     Rec("obj", "B", "ty", StructRefE, FALSE, <<>>),
     Rec("map", "A", "type", MapStructX, TRUE, DShort),
     Rec("map", "B", "none", TyNone, TRUE, D1),
     Rec("obj", "A", "none", TyNone, TRUE, D1)}

TypePool ==
    {TypeDef("obj", "A", StructXY),
     TypeDef("map", "B", MapStructX),
     TypeDef("obj", "E", EnumE)}

EventPool ==
    {EventRec("obj", "A", TRUE, <<Field("myField", U8)>>, FALSE, <<>>),
     EventRec("obj", "A", FALSE, <<>>, TRUE, D1),
     EventRec("map", "A", FALSE, <<>>, TRUE, D1),
     EventRec("obj", "B", TRUE, <<Field("x", Bool)>>, TRUE, D1),
     EventRec("obj", "B", FALSE, <<>>, TRUE, DShort)}

AccountIdls ==
    {Idl(a, <<>>, t) : a \in SeqsUpTo(AccountPool, MaxAccounts) \ {<<>>},
                       t \in SeqsUpTo(TypePool, MaxTypes)}

EventIdls ==
    {Idl(<<>>, e, t) : e \in SeqsUpTo(EventPool, MaxEvents) \ {<<>>},
                       t \in SeqsUpTo(TypePool, MaxTypes)}

\* Frames: a discriminator and up to MaxPayload payload bytes, and one frame
\* shorter than a discriminator.
Payloads == {Take(<<1, 7, 0>>, n) : n \in 0..MaxPayload}

FramesOver(discs) == {d \o p : d \in discs, p \in Payloads} \cup {DShort}

AccountFrames ==
    FramesOver({D1, DZero, _account_discriminator("A"), _account_discriminator("B")})

EventFrames ==
    FramesOver({D1, DZero, _event_discriminator("A"), _event_discriminator("B")})

\* Values a layout builds: the least and the greatest integer, both booleans,
\* None and a value, the empty list and a list of one.
RECURSIVE ValuesOf(_)
RECURSIVE MemberValues(_, _)
MemberValues(lays, i) ==
    IF i > Len(lays) THEN {<<>>}
    ELSE {<<IF lays[i].k = "Renamed" THEN Val("member", 0, lays[i].nm, <<v>>) ELSE v>> \o rest :
              v \in ValuesOf(lays[i]), rest \in MemberValues(lays, i + 1)}

ValuesOf(lay) ==
    CASE lay.k = "prim" ->
           IF lay.nm = "Bool" THEN {VBool(TRUE), VBool(FALSE)}
           ELSE {VInt(0), VInt(Pow256(PrimWidth(lay.nm)) - 1)}
      [] lay.k = "Renamed" -> ValuesOf(lay.sub[1])
      [] lay.k = "Option" -> {VNone} \cup ValuesOf(lay.sub[1])
      [] lay.k = "Vec" -> {VList(<<>>)} \cup {VList(<<v>>) : v \in ValuesOf(lay.sub[1])}
      [] lay.k = "Array" -> {VList([i \in 1..lay.n |-> v]) : v \in ValuesOf(lay.sub[1])}
      [] lay.k = "TupleStruct" -> {VList(m) : m \in MemberValues(lay.sub, 1)}
      [] lay.k = "CStruct" -> {Val("container", 0, "", m) : m \in MemberValues(lay.sub, 1)}
      [] lay.k = "DataclassStruct" ->
           {Val("dataclass", 0, lay.sub[2].nm, <<v>>) : v \in ValuesOf(lay.sub[1])}
      [] lay.k = "Enum" ->
           UNION {IF lay.sub[i].k = "unit"
                  THEN {Val("variant", i - 1, lay.sub[i].nm, <<>>)}
                  ELSE {Val("variant", i - 1, lay.sub[i].nm, <<v>>) : v \in ValuesOf(lay.sub[i])}
                  : i \in 1..Len(lay.sub)}
      [] OTHER -> {}

(***************************************************************************)
(* The state machine.                                                      *)
(***************************************************************************)
NoRes == [op |-> "none"]

\* The coder as the state keeps it: without the cache its construction left.
Kept(c) == [f \in DOMAIN c \ {"cache"} |-> c[f]]

Init ==
    /\ enumsCache = {}
    /\ coder = NoCoder
    /\ dual = NoCoder
    /\ res = NoRes
    /\ discLog = <<>>

\* The constructor returned c (or raised) and left the cache as c.cache.
Constructed(c) ==
    /\ coder' = Kept(c)
    /\ enumsCache' = c.cache

\* coder = AccountsCoder(idl) for an IDL of idls
NewAccountsCoderOver(idls) ==
    /\ coder.kind = "none"
    /\ \E idl \in idls : Constructed(AccountsCoderInit(idl, enumsCache))
    /\ dual' = NoCoder
    /\ res' = NoRes
    /\ UNCHANGED discLog

\* coder = EventCoder(idl) for an IDL of idls
NewEventCoderOver(idls) ==
    /\ coder.kind = "none"
    /\ \E idl \in idls : Constructed(EventCoderInit(idl, enumsCache))
    /\ dual' = NoCoder
    /\ res' = NoRes
    /\ UNCHANGED discLog

NewAccountsCoder == NewAccountsCoderOver(AccountIdls)

NewEventCoder == NewEventCoderOver(EventIdls)

\* The program lets go of its coders; _enums_cache lives on.
Discard ==
    /\ coder.kind # "none"
    /\ coder' = NoCoder
    /\ dual' = NoCoder
    /\ res' = NoRes
    /\ UNCHANGED <<enumsCache, discLog>>

\* A legacy-dialect account record: it embeds a struct body and supplies no
\* discriminator.
Legacy(acc) ==
    acc.body \in {"ty", "type"} /\ acc.ty.kind = "struct" /\ ~Truthy(acc.disc)

\* The spec-dialect counterpart of idl at its legacy account i: the record
\* keeps its name and carries the derived discriminator precomputed, and its
\* body is a definition of the types list, put first or last.
DualIdl(idl, i, form, tform, front) ==
    Idl([idl.accounts EXCEPT ![i] =
            Rec(form, idl.accounts[i].name, "none", TyNone, TRUE,
                _account_discriminator(idl.accounts[i].name))],
        idl.events,
        IF front
        THEN <<TypeDef(tform, idl.accounts[i].name, idl.accounts[i].ty)>> \o idl.types
        ELSE idl.types \o <<TypeDef(tform, idl.accounts[i].name, idl.accounts[i].ty)>>)

\* The second constructor returned c (or raised).
DualConstructed(c, i) ==
    /\ dual' = [kind |-> "dual", st |-> c.st, idx |-> i, c |-> Kept(c)]
    /\ enumsCache' = c.cache

\* dual = AccountsCoder(the spec-dialect counterpart of coder's IDL)
BuildDual ==
    /\ coder.kind = "accounts" /\ coder.st = "ok"
    /\ dual.kind = "none" /\ res.op = "none"
    /\ \E i \in 1..Len(coder.idl.accounts), form \in {"obj", "map"},
          tform \in {"obj", "map"}, front \in BOOLEAN :
          /\ Legacy(coder.idl.accounts[i])
          /\ DualConstructed(AccountsCoderInit(DualIdl(coder.idl, i, form, tform, front),
                                               enumsCache), i)
    /\ UNCHANGED <<coder, res, discLog>>

\* coder.parse(obj) and dual.parse(obj) for one account frame
DecodeBoth ==
    /\ coder.kind = "accounts" /\ coder.st = "ok"
    /\ dual.kind = "dual" /\ dual.st = "ok"
    /\ res.op = "none"
    /\ \E obj \in AccountFrames :
          res' = [op |-> "both", obj |-> obj,
                  out |-> AccountsCoderParse(coder, obj),
                  dualOut |-> AccountsCoderParse(dual.c, obj)]
    /\ UNCHANGED <<enumsCache, coder, dual, discLog>>

\* A mutant of Encode: a name that is not registered is registered with an
\* all-zero discriminator before the lookup.
EncodeRegistering ==
    /\ coder.kind = "accounts" /\ coder.st = "ok"
    /\ dual.kind = "none" /\ res.op = "none"
    /\ \E name \in DictKeys(coder.acc_name_to_discriminator) \cup {"Ghost"} :
       \E data \in IF DictHas(coder._accounts_layout, name)
                   THEN ValuesOf(DictGet(coder._accounts_layout, name))
                   ELSE {VNone} :
          /\ res' = [op |-> "encode", name |-> name, data |-> data,
                     built |-> AccountsCoderBuild(coder, name, data)]
          /\ coder' = IF DictHas(coder.acc_name_to_discriminator, name) THEN coder
                      ELSE [coder EXCEPT !.acc_name_to_discriminator =
                                DictSet(@, name, DZero)]
    /\ UNCHANGED <<enumsCache, dual, discLog>>

\* coder.build(AccountToSerialize(data, name))
Encode ==
    /\ coder.kind = "accounts" /\ coder.st = "ok"
    /\ dual.kind = "none" /\ res.op = "none"
    /\ \E name \in DictKeys(coder.acc_name_to_discriminator) \cup {"Ghost"} :
       \E data \in IF DictHas(coder._accounts_layout, name)
                   THEN ValuesOf(DictGet(coder._accounts_layout, name))
                   ELSE {VNone} :
          res' = [op |-> "encode", name |-> name, data |-> data,
                  built |-> AccountsCoderBuild(coder, name, data)]
    /\ UNCHANGED <<enumsCache, coder, dual, discLog>>

\* coder.parse(b) for the bytes b the last build produced
DecodeEncoded ==
    /\ coder.kind = "accounts" /\ coder.st = "ok"
    /\ res.op = "encode" /\ res.built.ok
    /\ res' = [op |-> "roundtrip", name |-> res.name, data |-> res.data,
               obj |-> res.built.bytes,
               out |-> AccountsCoderParse(coder, res.built.bytes)]
    /\ UNCHANGED <<enumsCache, coder, dual, discLog>>

\* coder.parse(obj) and coder.decode(obj) for an account frame
Decode ==
    /\ coder.kind = "accounts" /\ coder.st = "ok"
    /\ dual.kind = "none" /\ res.op = "none"
    /\ \E obj \in AccountFrames :
          res' = [op |-> "decode", obj |-> obj,
                  out |-> AccountsCoderParse(coder, obj),
                  decoded |-> AccountsCoderDecode(coder, obj)]
    /\ UNCHANGED <<enumsCache, coder, dual, discLog>>

\* coder.parse(obj) for an event frame
ParseEvent ==
    /\ coder.kind = "events" /\ coder.st = "ok"
    /\ res.op = "none"
    /\ \E obj \in EventFrames :
          res' = [op |-> "evparse", obj |-> obj, out |-> EventCoderParse(coder, obj)]
    /\ UNCHANGED <<enumsCache, coder, dual, discLog>>

Next ==
    \/ NewAccountsCoder
    \/ NewEventCoder
    \/ Discard
    \/ BuildDual
    \/ Encode
    \/ DecodeEncoded
    \/ Decode
    \/ DecodeBoth
    \/ ParseEvent

Spec == Init /\ [][Next]_vars

(***************************************************************************)
(* SpecDisc: the discriminator derivations, called between constructions   *)
(* of coders over the IDLs of one record.                                  *)
(***************************************************************************)
Names == {"A", "B"}

\* One call, as discLog keeps it: the function, its argument and its result,
\* and the coder there was at the time of the call.
Called(fn, name, out) ==
    [fn |-> fn, name |-> name, out |-> out, coder |-> coder.kind]

\* _account_discriminator(name)
AccountDiscriminatorCall ==
    /\ Len(discLog) < MaxLog
    /\ \E name \in Names :
          discLog' = Append(discLog, Called("account", name, _account_discriminator(name)))
    /\ UNCHANGED <<enumsCache, coder, dual, res>>

\* _event_discriminator(name)
EventDiscriminatorCall ==
    /\ Len(discLog) < MaxLog
    /\ \E name \in Names :
          discLog' = Append(discLog, Called("event", name, _event_discriminator(name)))
    /\ UNCHANGED <<enumsCache, coder, dual, res>>

NewSmallAccountsCoder ==
    NewAccountsCoderOver({idl \in AccountIdls : Len(idl.accounts) = 1 /\ Len(idl.types) <= 1})

NewSmallEventCoder ==
    NewEventCoderOver({idl \in EventIdls : Len(idl.events) = 1 /\ Len(idl.types) <= 1})

NextDisc ==
    \/ AccountDiscriminatorCall
    \/ EventDiscriminatorCall
    \/ NewSmallAccountsCoder
    \/ NewSmallEventCoder
    \/ Discard

SpecDisc == Init /\ [][NextDisc]_vars

(***************************************************************************)
(* SpecLookup: get_account_type_definition over account records of every   *)
(* form and body field, and over no types list and every types list.       *)
(***************************************************************************)
LookupNames == {"A", "B", "C"}

\* Records that carry ty, type or kind, with a body or with None for it, and
\* records that carry none of them.
LookupAccounts ==
    {Rec(form, name, b[1], b[2], FALSE, <<>>) :
        form \in {"obj", "map"}, name \in LookupNames,
        b \in {<<"ty", StructX>>, <<"ty", TyNone>>, <<"type", StructX>>,
               <<"type", TyNone>>, <<"kind", TyNone>>, <<"none", TyNone>>}}

LookupTypes == {TypesNone} \cup {TypesOf(t) : t \in SeqsUpTo(TypePool, MaxTypes)}

\* get_account_type_definition(account, types)
LookupCall ==
    /\ \E account \in LookupAccounts, types \in LookupTypes :
          res' = [op |-> "lookup", account |-> account, types |-> types,
                  out |-> get_account_type_definition(account, types)]
    /\ UNCHANGED <<enumsCache, coder, dual, discLog>>

SpecLookup == Init /\ [][LookupCall]_vars

(***************************************************************************)
(* SpecLayout: _type_layout over type references and types lists, with     *)
(* _enums_cache carried from call to call.                                 *)
(***************************************************************************)
LayoutTypePool ==
    TypePool \cup {TypeDef("obj", "A", StructX),
                   TypeDef("obj", "Z", TyAlias("obj", Defined("Z")))}

LayoutTypes ==
    {Defined("A"), Defined("B"), Defined("E"), Defined("Z"), Defined("C"),
     DefinedAs("obj", "A"), DefinedAs("map", "E"), DefinedAs("bad", "A"),
     TVec(Defined("A")), TOption(Defined("E")), TArray(Defined("B"), 2),
     Simple("U8"), NoType}

\* The call returned r (or raised) and left the cache as r.cache.
LayoutReturned(r, type_, types) ==
    /\ res' = [op |-> "layout", type_ |-> type_, types |-> types, cache |-> enumsCache,
               out |-> [ok |-> r.ok, err |-> r.err, lay |-> r.lay]]
    /\ enumsCache' = r.cache

\* _type_layout(type_, types)
LayoutCall ==
    /\ \E type_ \in LayoutTypes, types \in SeqsUpTo(LayoutTypePool, MaxTypes) :
          LayoutReturned(_type_layout(type_, types, enumsCache, RecursionLimit), type_, types)
    /\ UNCHANGED <<coder, dual, discLog>>

SpecLayout == Init /\ [][LayoutCall]_vars

(***************************************************************************)
(* SpecStruct: _typedef_layout_without_field_name over struct definitions  *)
(* named S, in object and in dict form, and over types lists that hold the *)
(* definition itself at the front, at the back, or not at all.             *)
(***************************************************************************)
FieldPool ==
    {Field("x", U8), Field("myField", Bool), MapField("y", U8), Bare(U8),
     Field("g", Defined("Ghost")), Field("s", Defined("S")), Field("e", Defined("E")),
     Field("o", TOption(Defined("S"))), Field("v", TVec(Defined("S")))}

StructDefs ==
    {TypeDef(form, "S", TyStruct(form, f)) :
        form \in {"obj", "map"}, f \in SeqsUpTo(FieldPool, MaxFields)}

\* The types list: base, with the definition itself where self says.
TypesWith(typedef, base, self) ==
    CASE self = "front" -> <<typedef>> \o base
      [] self = "back" -> base \o <<typedef>>
      [] OTHER -> base

\* The call returned r (or raised) and left the cache as r.cache.
TypedefReturned(r, typedef, types) ==
    /\ res' = [op |-> "typedef", typedef |-> typedef, types |-> types, cache |-> enumsCache,
               out |-> [ok |-> r.ok, err |-> r.err, lay |-> r.lay]]
    /\ enumsCache' = r.cache

\* _typedef_layout_without_field_name(typedef, types), the first call of a
\* process
TypedefCall ==
    /\ res.op = "none"
    /\ \E typedef \in StructDefs, base \in SeqsUpTo(TypePool, MaxTypes),
          self \in {"none", "front", "back"} :
          TypedefReturned(
              _typedef_layout_without_field_name(typedef, TypesWith(typedef, base, self),
                                                 enumsCache, RecursionLimit),
              typedef, TypesWith(typedef, base, self))
    /\ UNCHANGED <<coder, dual, discLog>>

SpecStruct == Init /\ [][TypedefCall]_vars

(***************************************************************************)
(* SpecEnum: _handle_enum_variants_no_cache over enums of up to            *)
(* MaxVariants variants of different names: without payload (object and    *)
(* dict), with positional and with named fields, with an empty field list, *)
(* with dict fields, and an element that is neither an object nor a dict.  *)
(***************************************************************************)
VariantPool ==
    {Variant("obj", "V0", "none", <<>>),
     Variant("map", "V1", "none", <<>>),
     Variant("obj", "V2", "obj", <<Bare(U8)>>),
     Variant("obj", "V3", "obj", <<Field("x", Bool), Field("myField", U8)>>),
     Variant("map", "V4", "list", <<>>),
     Variant("map", "V5", "list", <<MapField("x", U8)>>),
     Variant("str", "V6", "none", <<>>)}

EnumBodies ==
    {TyEnum(form, vs) :
        form \in {"obj", "map"},
        vs \in {v \in SeqsUpTo(VariantPool, MaxVariants) :
                   \A i, j \in 1..Len(v) : v[i].name = v[j].name => i = j}}

\* _handle_enum_variants_no_cache(idl_enum, types, name), the first call of a
\* process
EnumCall ==
    /\ res.op = "none"
    /\ \E idl_enum \in EnumBodies, types \in SeqsUpTo(TypePool, 1) :
          res' = [op |-> "enum", idl_enum |-> idl_enum, types |-> types,
                  out |-> Kept(_handle_enum_variants_no_cache(idl_enum, types, "T",
                                                              enumsCache, RecursionLimit))]
    /\ UNCHANGED <<enumsCache, coder, dual, discLog>>

SpecEnum == Init /\ [][EnumCall]_vars

(***************************************************************************)
(* SpecMemo: layouts of named types derived one after the other, and the   *)
(* identity of the object each derivation returns.  An object is           *)
(*   "new"    : made by the call (number n) that returns it;               *)
(*   "cached" : the value of _enums_cache under (name, str(enum));         *)
(*   "const"  : a value of FIELD_TYPE_MAP.                                 *)
(***************************************************************************)
Inst(k, n, name, enum) == [k |-> k, n |-> n, name |-> name, enum |-> enum]

NoInst == Inst("none", 0, "", TyNone)

RECURSIVE TypeInstance(_, _, _)
\* The object _typedef_layout_without_field_name returns when it returns one:
\* _DataclassStruct(...) is a new object, _handle_enum_variants returns the
\* cache's, an alias returns what _type_layout returns for its value.
TypedefInstance(typedef, types, n) ==
    CASE TypedefType(typedef).kind = "struct" -> Inst("new", n, "", TyNone)
      [] TypedefType(typedef).kind = "enum" ->
           Inst("cached", 0, typedef.name, TypedefType(typedef))
      [] OTHER -> TypeInstance(TypedefType(typedef).value, types, n)

\* The object _type_layout returns when it returns one.
TypeInstance(type_, types, n) ==
    CASE type_.k = "simple" -> Inst("const", 0, type_.nm, TyNone)
      [] type_.k = "defined" -> TypedefInstance(Filtered(types, type_.nm)[1], types, n)
      [] OTHER -> Inst("new", n, "", TyNone)

MemoDefs ==
    {TypeDef("obj", "A", StructXY), TypeDef("map", "B", MapStructX),
     TypeDef("obj", "E", EnumE), TypeDef("obj", "R", StructRefE),
     TypeDef("obj", "U", TyAlias("obj", U8)), TypeDef("obj", "F", TyAlias("obj", Defined("E")))}

MemoTypes == {<<>>, <<TypeDef("obj", "E", EnumE)>>}

\* The derivations made so far, as res keeps them.
DeriveLog == IF res.op = "derive" THEN res.log ELSE <<>>

\* The call returned r (or raised) and left the cache as r.cache.
Derived(r, typedef, types) ==
    /\ res' = [op |-> "derive",
               log |-> Append(DeriveLog,
                          [typedef |-> typedef, types |-> types, ok |-> r.ok,
                           inst |-> IF r.ok
                                    THEN TypedefInstance(typedef, types, Len(DeriveLog) + 1)
                                    ELSE NoInst])]
    /\ enumsCache' = r.cache

\* _typedef_layout_without_field_name(typedef, types), one call after another
DeriveCall ==
    /\ Len(DeriveLog) < MaxDerive
    /\ \E typedef \in MemoDefs, types \in MemoTypes :
          Derived(_typedef_layout_without_field_name(typedef, types, enumsCache, RecursionLimit),
                  typedef, types)
    /\ UNCHANGED <<coder, dual, discLog>>

SpecMemo == Init /\ [][DeriveCall]_vars

(***************************************************************************)
(* SpecCompat: the flag getters over instruction-account records of both   *)
(* forms, and get_defined_type_name over references of every form.         *)
(***************************************************************************)
FlagValues == {"absent", "True", "False", "None"}

IxAccounts ==
    {IxAccount(form, w, m, s, i) :
        form \in {"obj", "map"}, w \in FlagValues, m \in FlagValues,
        s \in FlagValues, i \in FlagValues}

DefinedRefs ==
    {DefinedAs(form, name) :
        form \in {"str", "obj", "map", "objbare", "mapbare", "none"},
        name \in {"A", "Ghost"}}

\* get_account_writable(account)
WritableCall ==
    /\ \E account \in IxAccounts :
          res' = [op |-> "writable", account |-> account, out |-> get_account_writable(account)]
    /\ UNCHANGED <<enumsCache, coder, dual, discLog>>

\* get_account_signer(account)
SignerCall ==
    /\ \E account \in IxAccounts :
          res' = [op |-> "signer", account |-> account, out |-> get_account_signer(account)]
    /\ UNCHANGED <<enumsCache, coder, dual, discLog>>

\* get_defined_type_name(type_defined)
DefinedNameCall ==
    /\ \E type_defined \in DefinedRefs :
          res' = [op |-> "defname", arg |-> type_defined,
                  out |-> get_defined_type_name(type_defined)]
    /\ UNCHANGED <<enumsCache, coder, dual, discLog>>

\* The records the discriminator getters are called on: an object or a dict,
\* without a discriminator, with an empty one, with one of 8 bytes and with a
\* short one.
DiscRecords ==
    {[form |-> f, name |-> "A", hasDisc |-> FALSE, disc |-> <<>>] : f \in {"obj", "map"}}
    \cup {[form |-> f, name |-> "A", hasDisc |-> TRUE, disc |-> d] :
             f \in {"obj", "map"}, d \in {<<>>, D1, DShort}}

Getters == {"account", "instruction", "event"}

\* The getter named fn applied to record.
DiscriminatorGetter(fn, record) ==
    CASE fn = "account" -> get_account_discriminator(record)
      [] fn = "instruction" -> get_instruction_discriminator(record)
      [] fn = "event" -> get_event_discriminator(record)

\* One call of a discriminator getter.
DiscriminatorCall ==
    /\ \E fn \in Getters, record \in DiscRecords :
          res' = [op |-> "getdisc", fn |-> fn, arg |-> record,
                  out |-> DiscriminatorGetter(fn, record)]
    /\ UNCHANGED <<enumsCache, coder, dual, discLog>>

NextCompat ==
    \/ WritableCall
    \/ SignerCall
    \/ DefinedNameCall
    \/ DiscriminatorCall

(***************************************************************************)
(* Calls of detect_idl_format.                                             *)
(***************************************************************************)
MaxInstructions == 2

Metadatas ==
    {Metadata("absent", "absent", FALSE), Metadata("none", "absent", FALSE)}
    \cup {Metadata("obj", s, TRUE) : s \in {"absent", "None", "0.1.0"}}
    \cup {Metadata("map", s, n) : s \in {"absent", "0.1.0"}, n \in BOOLEAN}

Addresses == {"absent", "", "Addr"}

\* The instruction and account records of the documents.
DetectRecords ==
    {[form |-> "obj", name |-> "A", hasDisc |-> FALSE, disc |-> <<>>],
     [form |-> "obj", name |-> "A", hasDisc |-> TRUE, disc |-> <<>>],
     [form |-> "obj", name |-> "A", hasDisc |-> TRUE, disc |-> D1],
     [form |-> "map", name |-> "A", hasDisc |-> TRUE, disc |-> D1]}

\* The call returned out for the document idl.
Detected(idl) ==
    res' = [op |-> "detect", idl |-> idl, out |-> detect_idl_format(idl)]

\* The call of detect_idl_format a process makes on a document it loaded.
DetectCall ==
    /\ res.op = "none"
    /\ \E f \in {"obj", "map"}, m \in Metadatas, a \in Addresses :
       \E ixs \in SeqsUpTo(DetectRecords, MaxInstructions),
          accs \in SeqsUpTo(DetectRecords, MaxAccounts) :
          Detected(IdlDoc(f, m, a, ixs, accs))
    /\ UNCHANGED <<enumsCache, coder, dual, discLog>>

SpecDetect == Init /\ [][DetectCall]_vars

(***************************************************************************)
(* Two callers of _handle_enum_variants on the same cache key, running     *)
(* concurrently. The code takes no lock: a caller looks the key up, and on *)
(* a miss computes the layout and then stores it, and another caller can   *)
(* run between any two of these steps. res holds the calls in progress:    *)
(* pc[t] is the position of caller t, lay[t] the layout it computed,       *)
(* got[t] the instance it returned (the caller that built it; 0 is the     *)
(* instance the cache held before), owner the instance in the cache under  *)
(* the key, computed the number of computations made for the key.          *)
(***************************************************************************)
Threads == {1, 2}

\* An enum with a variant whose payload is the defined type A.
EnumRefA ==
    TyEnum("obj", <<Variant("obj", "V0", "none", <<>>),
                    Variant("obj", "V1", "obj", <<Bare(Defined("A"))>>)>>)

\* The types lists of the documents: A is one struct, or another, or missing.
CacheTypes ==
    {<<TypeDef("obj", "A", StructXY)>>, <<TypeDef("obj", "A", StructX)>>,
     <<TypeDef("obj", "E", EnumE)>>}

CacheEnums == {EnumE, EnumRefA}

CacheNames == {"E", "F"}

\* Both callers enter _handle_enum_variants with the same name and enum,
\* each with the types list of its document.
StartResolution ==
    /\ res.op = "none" \/ (res.op = "resolve" /\ \A t \in Threads : res.pc[t] \in {"done", "raised"})
    /\ \E idl_enum \in CacheEnums, name \in CacheNames, t1 \in CacheTypes, t2 \in CacheTypes :
          res' = [op |-> "resolve", idl_enum |-> idl_enum, name |-> name,
                  types |-> <<t1, t2>>, pc |-> <<"lookup", "lookup">>,
                  lay |-> <<NoLayout, NoLayout>>, got |-> <<0, 0>>,
                  owner |-> 0, computed |-> 0]
    /\ UNCHANGED <<enumsCache, coder, dual, discLog>>

\* try: return _enums_cache[dict_key]
LookupStep ==
    /\ res.op = "resolve"
    /\ \E t \in Threads :
          /\ res.pc[t] = "lookup"
          /\ res' = IF CacheHit(enumsCache, res.name, res.idl_enum) # {}
                    THEN [res EXCEPT !.pc[t] = "done", !.got[t] = res.owner]
                    ELSE [res EXCEPT !.pc[t] = "compute"]
    /\ UNCHANGED <<enumsCache, coder, dual, discLog>>

\* The caller computed r (or the computation raised).
Computed(t, r) ==
    /\ res' = IF r.ok
              THEN [res EXCEPT !.pc[t] = "store", !.lay[t] = r.lay,
                               !.computed = res.computed + 1]
              ELSE [res EXCEPT !.pc[t] = "raised", !.computed = res.computed + 1]
    /\ enumsCache' = r.cache

\* except KeyError: result = _handle_enum_variants_no_cache(...)
ComputeStep ==
    /\ res.op = "resolve"
    /\ \E t \in Threads :
          /\ res.pc[t] = "compute"
          /\ Computed(t, _handle_enum_variants_no_cache(res.idl_enum, res.types[t], res.name,
                                                        enumsCache, RecursionLimit))
    /\ UNCHANGED <<coder, dual, discLog>>

\* _enums_cache[dict_key] = result; return result
StoreStep ==
    /\ res.op = "resolve"
    /\ \E t \in Threads :
          /\ res.pc[t] = "store"
          /\ res' = [res EXCEPT !.pc[t] = "done", !.got[t] = t, !.owner = t]
          /\ enumsCache' = CachePut(enumsCache, res.name, res.idl_enum, res.lay[t])
    /\ UNCHANGED <<coder, dual, discLog>>

NextThreads ==
    \/ StartResolution
    \/ LookupStep
    \/ ComputeStep
    \/ StoreStep

SpecThreads == Init /\ [][NextThreads]_vars

(***************************************************************************)
(* Calls of _handle_enum_variants one after another, over the types lists  *)
(* of several documents, on the one module-level cache.                    *)
(***************************************************************************)
\* The call returned r (or raised) and left the cache as r.cache; direct is
\* what _handle_enum_variants_no_cache returns for the same arguments.
HandleEnumReturned(r, direct, idl_enum, types, name) ==
    /\ res' = [op |-> "henum", idl_enum |-> idl_enum, types |-> types, name |-> name,
               out |-> [ok |-> r.ok, err |-> r.err, lay |-> r.lay],
               direct |-> [ok |-> direct.ok, err |-> direct.err, lay |-> direct.lay]]
    /\ enumsCache' = r.cache

\* _handle_enum_variants(idl_enum, types, name)
HandleEnumCall ==
    /\ \E idl_enum \in CacheEnums, name \in CacheNames, types \in CacheTypes :
          HandleEnumReturned(
              _handle_enum_variants(idl_enum, types, name, enumsCache, RecursionLimit),
              _handle_enum_variants_no_cache(idl_enum, types, name, enumsCache,
                                             RecursionLimit),
              idl_enum, types, name)
    /\ UNCHANGED <<coder, dual, discLog>>

SpecCache == Init /\ [][HandleEnumCall]_vars

(***************************************************************************)
(* clientgen/accounts.py: the discriminator constant gen_account_code      *)
(* emits. It is generated for one account record of the IDL a coder was    *)
(* constructed from. Of the generated module only the discriminator        *)
(* assignment is modelled; the field helpers of clientgen.common are taken *)
(* to return. name is _sanitize(acc_name_raw): a Python keyword gets an    *)
(* underscore appended.                                                    *)
(***************************************************************************)
\* has_ty_field: hasattr(acc, 'ty'), or a dict with a 'ty' or 'type' key.
has_ty_field(acc) ==
    \/ acc.form = "obj" /\ Carries(acc, "ty")
    \/ acc.form = "map" /\ (Carries(acc, "ty") \/ Carries(acc, "type"))

\* The result of gen_account_code: [ok, err, disc]; disc is the value of
\* the discriminator class variable.
GenOk(disc) == [ok |-> TRUE, err |-> "", disc |-> disc]

GenErr(e) == [ok |-> FALSE, err |-> e, disc |-> <<>>]

gen_account_code(acc, idl) ==
    LET name == IF acc.name \in kwlist THEN acc.name \o "_" ELSE acc.name
        type_def == IF has_ty_field(acc) THEN RecOk(acc)
                    ELSE get_account_type_definition(acc, TypesOf(idl.types))
    IN  IF ~type_def.ok THEN GenErr(type_def.err)
        ELSE GenOk(_account_discriminator(name))

\* gen_account_code(acc, idl) for an account record of the coder's IDL
GenAccountCode ==
    /\ coder.kind = "accounts" /\ coder.st = "ok"
    /\ \E i \in 1..Len(coder.idl.accounts) :
          res' = [op |-> "gen", i |-> i, acc |-> coder.idl.accounts[i],
                  out |-> gen_account_code(coder.idl.accounts[i], coder.idl)]
    /\ UNCHANGED <<enumsCache, coder, dual, discLog>>

NextGen ==
    \/ NewAccountsCoder
    \/ Discard
    \/ GenAccountCode

SpecGen == Init /\ [][NextGen]_vars

(***************************************************************************)
(* Calls of _event_layout, and the construction of an EventCoder.          *)
(***************************************************************************)
\* The events of the calls: those of EventPool, and one with an empty list
\* of fields.
EventLayoutPool ==
    EventPool \cup {EventRec("obj", "A", TRUE, <<>>, FALSE, <<>>)}

\* The definitions of the calls: those of TypePool, and a struct named A
\* that refers to the type E.
EventTypePool == TypePool \cup {TypeDef("obj", "A", StructRefE)}

\* The call returned r (or raised) and left the cache as r.cache.
EventLayoutReturned(r, event, idl) ==
    /\ res' = [op |-> "evlayout", event |-> event, idl |-> idl, cache |-> enumsCache,
               out |-> [ok |-> r.ok, err |-> r.err, lay |-> r.lay]]
    /\ enumsCache' = r.cache

\* _event_layout(event, idl), the first call made after a construction
EventLayoutCall ==
    /\ res.op = "none"
    /\ \E event \in EventLayoutPool, types \in SeqsUpTo(EventTypePool, MaxTypes) :
          EventLayoutReturned(_event_layout(event, Idl(<<>>, <<event>>, types), enumsCache),
                              event, Idl(<<>>, <<event>>, types))
    /\ UNCHANGED <<coder, dual, discLog>>

NextEvent ==
    \/ EventLayoutCall
    \/ NewSmallEventCoder
    \/ Discard

SpecEvent == Init /\ [][NextEvent]_vars

(***************************************************************************)
(* Layouts of alias definitions.                                           *)
(***************************************************************************)
\* The targets of the aliases: a primitive, references that resolve to a
\* struct, to an enum, to the alias itself or to nothing, containers, and a
\* type the layout engine does not know.
AliasTargets ==
    {U8, Defined("A"), Defined("E"), Defined("Z"), Defined("C"),
     TVec(Defined("E")), TOption(U8), TArray(Defined("B"), 2), NoType}

\* The alias definitions, named Z: an object or a dict, with an
\* IdlTypeDefinitionTyAlias or a dict of kind 'alias'.
AliasDefs ==
    {TypeDef(form, "Z", TyAlias(tyform, value)) :
        form \in {"obj", "map"}, tyform \in {"obj", "map"}, value \in AliasTargets}

\* The call returned r (or raised) and left the cache as r.cache.
AliasReturned(r, typedef, types) ==
    /\ res' = [op |-> "alias", typedef |-> typedef, types |-> types, cache |-> enumsCache,
               out |-> [ok |-> r.ok, err |-> r.err, lay |-> r.lay]]
    /\ enumsCache' = r.cache

\* _typedef_layout_without_field_name(typedef, types) for an alias
\* definition, the first call of a process
AliasCall ==
    /\ res.op = "none"
    /\ \E typedef \in AliasDefs, base \in SeqsUpTo(TypePool, MaxTypes),
          self \in {"none", "front", "back"} :
          AliasReturned(
              _typedef_layout_without_field_name(typedef, TypesWith(typedef, base, self),
                                                 enumsCache, RecursionLimit),
              typedef, TypesWith(typedef, base, self))
    /\ UNCHANGED <<coder, dual, discLog>>

SpecAlias == Init /\ [][AliasCall]_vars

SpecCompat == Init /\ [][NextCompat]_vars

(***************************************************************************)
(* Properties of the coders, checked under Spec.                           *)
(***************************************************************************)
AccountsOk == coder.kind = "accounts" /\ coder.st = "ok"

EventsOk == coder.kind = "events" /\ coder.st = "ok"

\* Another name of the coder has the discriminator of name.
Shared(name) ==
    \E i \in 1..Len(coder.acc_name_to_discriminator) :
        /\ coder.acc_name_to_discriminator[i].key # name
        /\ coder.acc_name_to_discriminator[i].val = DictGet(coder.acc_name_to_discriminator, name)

\* C1: for a coder built from any IDL, a registered account name and a value
\* valid for its layout, parsing the bytes that building (name, value) gave
\* returns the same name and the same value.
C1_RoundTrip ==
    res.op = "roundtrip" =>
        /\ res.out.ok /\ res.out.found
        /\ res.out.name = res.name
        /\ res.out.data = res.data

\* C1: a round trip came back under another name.
C1_RenamedReached ==
    /\ res.op = "roundtrip" /\ res.out.ok
    /\ res.out.name # res.name
    /\ Shared(res.name)

\* C2: AccountsCoder.decode of bytes whose first 8 bytes are no discriminator
\* registered in the coder raises; it never returns a decoded account.
C2_DecodeStrict ==
    /\ res.op = "decode"
    /\ ~DictHas(coder.discriminator_to_acc_name, Take(res.obj, ACCOUNT_DISCRIMINATOR_SIZE))
    => ~res.decoded.ok /\ ~res.out.ok

\* C2: a frame of a full, unregistered prefix was decoded and raised KeyError.
C2_UnknownPrefixReached ==
    /\ res.op = "decode"
    /\ Len(res.obj) > ACCOUNT_DISCRIMINATOR_SIZE
    /\ ~DictHas(coder.discriminator_to_acc_name, Take(res.obj, ACCOUNT_DISCRIMINATOR_SIZE))
    /\ ~res.decoded.ok /\ res.decoded.err.e = "KeyError"

\* C3: EventCoder.parse of a frame whose first 8 bytes match no registered
\* event discriminator returns None and does not raise; for a registered
\* discriminator it never returns None, and the Event it returns (the payload
\* parsing under the event's layout) carries the name registered for it.
C3_EventLenient ==
    res.op = "evparse" /\ Len(res.obj) >= EVENT_DISCRIMINATOR_SIZE =>
        IF DictHas(coder.discriminators, Take(res.obj, EVENT_DISCRIMINATOR_SIZE))
        THEN /\ res.out # ParsedNone
             /\ res.out.ok =>
                    /\ res.out.found
                    /\ res.out.name =
                           DictGet(coder.discriminators, Take(res.obj, EVENT_DISCRIMINATOR_SIZE))
        ELSE res.out = ParsedNone

\* C3: a frame of an unregistered prefix was parsed by a coder that has
\* events registered, and gave None.
C3_NoEventReached ==
    /\ res.op = "evparse" /\ Len(res.obj) > EVENT_DISCRIMINATOR_SIZE
    /\ Len(coder.discriminators) > 0
    /\ ~DictHas(coder.discriminators, Take(res.obj, EVENT_DISCRIMINATOR_SIZE))
    /\ res.out = ParsedNone

\* C4: a coder is constructed only if no two distinct names of its category
\* map to the same discriminator, precomputed or derived.
C4_NoSharedDiscriminator ==
    /\ AccountsOk =>
          \A i, j \in 1..Len(coder.acc_name_to_discriminator) :
              i # j => coder.acc_name_to_discriminator[i].val
                           # coder.acc_name_to_discriminator[j].val
    /\ EventsOk =>
          \A i, j \in 1..Len(coder.idl.events) :
              coder.idl.events[i].name # coder.idl.events[j].name
                  => EventDiscriminatorOf(coder.idl.events[i]).disc
                         # EventDiscriminatorOf(coder.idl.events[j]).disc

\* C4: a coder was constructed whose discriminator-to-name index lost a name.
C4_OverwrittenReached ==
    /\ AccountsOk
    /\ Len(coder.discriminator_to_acc_name) < Len(coder.acc_name_to_discriminator)

\* C5: every discriminator a constructed coder holds is 8 bytes long.
C5_EightBytes ==
    /\ AccountsOk =>
          /\ \A i \in 1..Len(coder.acc_name_to_discriminator) :
                 Len(coder.acc_name_to_discriminator[i].val) = ACCOUNT_DISCRIMINATOR_SIZE
          /\ \A i \in 1..Len(coder.discriminator_to_acc_name) :
                 Len(coder.discriminator_to_acc_name[i].key) = ACCOUNT_DISCRIMINATOR_SIZE
    /\ EventsOk =>
          \A i \in 1..Len(coder.discriminators) :
              Len(coder.discriminators[i].key) = EVENT_DISCRIMINATOR_SIZE

\* C5: a coder was constructed that holds the three-byte discriminator.
C5_ShortReached ==
    AccountsOk /\ DShort \in DictVals(coder.acc_name_to_discriminator)

\* The record carries a non-empty discriminator.
Precomputed(r) == r.hasDisc /\ Truthy(r.disc)

\* C6: the coder registers a record's own discriminator when the record
\* carries a non-empty one, and the value derived from the namespaced name
\* otherwise; a derived value is never registered for a record that carries one.
C6_DiscriminatorSource ==
    /\ AccountsOk =>
          \A i \in 1..Len(coder.idl.accounts) :
              (\A j \in (i + 1)..Len(coder.idl.accounts) :
                  coder.idl.accounts[j].name # coder.idl.accounts[i].name)
              => DictGet(coder.acc_name_to_discriminator, coder.idl.accounts[i].name)
                     = IF Precomputed(coder.idl.accounts[i])
                       THEN coder.idl.accounts[i].disc
                       ELSE Take(sha256("account:" \o coder.idl.accounts[i].name), 8)
    /\ EventsOk =>
          DictKeys(coder.discriminators)
              = {IF Precomputed(coder.idl.events[i])
                 THEN coder.idl.events[i].disc
                 ELSE Take(sha256("event:" \o coder.idl.events[i].name), 8)
                 : i \in 1..Len(coder.idl.events)}

\* C6: a coder was constructed from a dict event that carries a discriminator
\* and registered the derived value for it.
C6_DerivedForDictReached ==
    /\ EventsOk
    /\ \E i \in 1..Len(coder.idl.events) :
          /\ coder.idl.events[i].form = "map"
          /\ Precomputed(coder.idl.events[i])
          /\ ~DictHas(coder.discriminators, coder.idl.events[i].disc)
          /\ DictHas(coder.discriminators, _event_discriminator(coder.idl.events[i].name))

\* The body dual's IDL holds for the account: the first definition of the
\* types list that has the account's name.
DualBody ==
    dual.c.idl.types[FirstNamed(dual.c.idl.types, coder.idl.accounts[dual.idx].name, 1)].ty

\* Both coders are built, the name names one account record, and the
\* spec-dialect record's body is the body the legacy record embeds.
DualBuilt ==
    /\ AccountsOk
    /\ dual.kind = "dual" /\ dual.st = "ok"
    /\ \A j \in 1..Len(coder.idl.accounts) :
          j # dual.idx => coder.idl.accounts[j].name # coder.idl.accounts[dual.idx].name
    /\ DualBody = coder.idl.accounts[dual.idx].ty

\* C8: a coder built from a legacy-dialect account record and one built from
\* its spec-dialect counterpart have the same layout for that account and
\* parse the same bytes to the same result.
C8_DualDialect ==
    DualBuilt =>
        /\ DictGet(coder._accounts_layout, coder.idl.accounts[dual.idx].name)
               = DictGet(dual.c._accounts_layout, coder.idl.accounts[dual.idx].name)
        /\ res.op = "both" => res.out = res.dualOut

\* C8: both coders parsed a frame to an account of the name.
C8_BothDecodedReached ==
    /\ DualBuilt
    /\ res.op = "both" /\ res.out.ok
    /\ res.out.name = coder.idl.accounts[dual.idx].name
    /\ res.dualOut = res.out

(***************************************************************************)
(* Properties of the discriminator derivations, checked under SpecDisc.    *)
(***************************************************************************)
\* C7: _account_discriminator(name) and _event_discriminator(name) return the
\* first 8 bytes of the SHA-256 digest of "account:" + name and of
\* "event:" + name, so that two calls with one name return one value of 8
\* bytes, whatever coder or cache there is and whatever was called between.
C7_Deterministic ==
    \A i, j \in 1..Len(discLog) :
        /\ Len(discLog[i].out) = 8
        /\ discLog[i].out = Take(sha256(discLog[i].fn \o ":" \o discLog[i].name), 8)
        /\ discLog[i].fn = discLog[j].fn /\ discLog[i].name = discLog[j].name
               => discLog[i].out = discLog[j].out

\* C7: one derivation was called twice with one name, before and after a
\* coder was constructed.
C7_CalledAcrossCoderReached ==
    \E i, j \in 1..Len(discLog) :
        /\ i < j
        /\ discLog[i].fn = "account" /\ discLog[j].fn = "account"
        /\ discLog[i].name = discLog[j].name
        /\ discLog[i].coder = "none" /\ discLog[j].coder = "accounts"
        /\ discLog[i].out = discLog[j].out

(***************************************************************************)
(* Properties of get_account_type_definition, checked under SpecLookup.    *)
(***************************************************************************)
\* The definitions of the list that have the name.
NamedIn(types, name) == {i \in 1..Len(types) : types[i].name = name}

\* What the lookup owes when the record is not returned as itself: a
\* definition of the types list of the account's name, or an error when there
\* is no types list or no definition of that name in it.
FromTypes(account, types, out) ==
    IF types.some /\ NamedIn(types.list, account.name) # {}
    THEN /\ out.ok
         /\ \E i \in NamedIn(types.list, account.name) : out.rec = types.list[i]
    ELSE ~out.ok

\* C9, as stated: the record is returned as itself when it carries ty, type
\* or kind, in object or map form and whatever the types list holds; else a
\* definition of the account's name comes from the types list, or an error.
C9_Lookup ==
    res.op = "lookup" =>
        IF res.account.body \in {"ty", "type", "kind"}
        THEN res.out = RecOk(res.account)
        ELSE FromTypes(res.account, res.types, res.out)

\* The record carries a body-describing field as the lookup sees it: ty or
\* kind, a type entry of a dict, or a type attribute that is truthy.
CarriesBody(account) ==
    \/ account.body \in {"ty", "kind"}
    \/ account.body = "type" /\ (account.form = "map" \/ TruthyBody(account.ty))

\* C9, amended: as C9_Lookup, where an object's type attribute counts as
\* carried only when it is truthy.
C9_LookupTruthy ==
    res.op = "lookup" =>
        IF CarriesBody(res.account)
        THEN res.out = RecOk(res.account)
        ELSE FromTypes(res.account, res.types, res.out)

\* C9: an object whose type attribute is None was looked up in a types list
\* that defines its name, and the definition was returned.
C9_FalsyTypeReached ==
    /\ res.op = "lookup"
    /\ res.account.form = "obj" /\ res.account.body = "type"
    /\ ~TruthyBody(res.account.ty)
    /\ res.types.some /\ res.out.ok
    /\ res.out.rec # res.account
    /\ res.out.rec.name = res.account.name

(***************************************************************************)
(* Properties of _type_layout, checked under SpecLayout.                   *)
(***************************************************************************)
\* C10: for a Defined(name) reference, _type_layout fails when the types
\* list holds no definition of the name and when it holds more than one, and
\* when it succeeds exactly one definition has the name and the layout is
\* that definition's.
C10_ExactlyOne ==
    /\ res.op = "layout"
    /\ res.type_.k = "defined" /\ res.type_.form # "bad"
    => /\ Cardinality(NamedIn(res.types, res.type_.nm)) # 1 => ~res.out.ok
       /\ res.out.ok =>
              \E i \in NamedIn(res.types, res.type_.nm) :
                  /\ NamedIn(res.types, res.type_.nm) = {i}
                  /\ res.out.lay =
                         _typedef_layout_without_field_name(
                             res.types[i], res.types, res.cache, RecursionLimit - 1).lay

\* C10: a reference to a name that one definition of a longer list has was
\* resolved to a layout.
C10_ResolvedReached ==
    /\ res.op = "layout" /\ res.type_.k = "defined"
    /\ Len(res.types) > 1
    /\ Cardinality(NamedIn(res.types, res.type_.nm)) = 1
    /\ res.out.ok

(***************************************************************************)
(* Properties of struct layouts, checked under SpecStruct.                 *)
(***************************************************************************)
\* The fields of the struct definition the last call was about.
FieldsOf(typedef) == TypedefType(typedef).fields

\* Field i is an IdlField or a dict field whose type is a reference to the
\* defined type name.
RefersTo(typedef, i, name) ==
    /\ FieldsOf(typedef)[i].ik \in {"objfield", "mapfield"}
    /\ FieldsOf(typedef)[i].ty.k = "defined"
    /\ FieldsOf(typedef)[i].ty.nm = name

\* The struct has a field of type Defined("Ghost"), and only fields of
\* primitive types before it.
GhostFirst(typedef) ==
    \E i \in 1..Len(FieldsOf(typedef)) :
        /\ RefersTo(typedef, i, "Ghost")
        /\ \A j \in 1..(i - 1) :
              /\ FieldsOf(typedef)[j].ik \in {"objfield", "mapfield"}
              /\ FieldsOf(typedef)[j].ty.k = "simple"

\* C11: deriving the layout of a struct with a field of type Defined("Ghost")
\* fails with an error that names Ghost, for every types list without a
\* definition named Ghost, the empty list included.
C11_GhostNamed ==
    (res.op = "typedef" /\ GhostFirst(res.typedef) /\ Filtered(res.types, "Ghost") = <<>>)
        => (~res.out.ok /\ res.out.err.arg = "Ghost")

\* C11: the case reached: the types list is empty and the error raised is
\* "User defined types not provided", which names no type.
C11_EmptyTypesReached ==
    /\ res.op = "typedef" /\ GhostFirst(res.typedef) /\ res.types = <<>>
    /\ ~res.out.ok
    /\ res.out.err = Err("User defined types not provided", "")

(***************************************************************************)
(* Properties of enum layouts, checked under SpecEnum.                     *)
(***************************************************************************)
\* Every declared variant is an object or a dict, the two forms of a variant
\* that the function reads.
VariantsReadable(idl_enum) ==
    \A i \in 1..Len(idl_enum.variants) : idl_enum.variants[i].form \in {"obj", "map"}

\* The payload of a variant as the IDL declares it.
DeclaredPayload(v) ==
    IF v.vf = "none" \/ Len(v.flds) = 0 THEN "none"
    ELSE IF v.flds[1].ik \in {"objfield", "mapfield"} THEN "named"
    ELSE "positional"

\* The payload of a variant of a layout: named for a CStruct, positional for
\* a TupleStruct with members, none for a variant without payload bytes.
LaidOutPayload(l) ==
    IF l.k = "unit" THEN "none"
    ELSE IF l.sub[1].k = "CStruct" THEN "named"
    ELSE IF Len(l.sub[1].sub) = 0 THEN "none"
    ELSE "positional"

\* C12: in the layout _handle_enum_variants_no_cache builds for an enum of
\* variants v0..vn, each an object or a dict, there is one variant per declared
\* variant and tag i selects variant vi, whatever payloads the variants have.
C12_TagsInOrder ==
    (res.op = "enum" /\ res.out.ok /\ VariantsReadable(res.idl_enum))
        => /\ Len(res.out.lay.sub) = Len(res.idl_enum.variants)
           /\ \A i \in 1..Len(res.idl_enum.variants) :
                 /\ ParseCon(res.out.lay, <<i - 1, 1, 1>>).ok
                 /\ ParseCon(res.out.lay, <<i - 1, 1, 1>>).val.k = "variant"
                 /\ ParseCon(res.out.lay, <<i - 1, 1, 1>>).val.i = i - 1
                 /\ ParseCon(res.out.lay, <<i - 1, 1, 1>>).val.nm = res.idl_enum.variants[i].name

\* C12: the case reached: a layout built for three variants, the first with
\* positional fields, the second with named fields, the last without payload.
C12_MixedReached ==
    /\ res.op = "enum" /\ res.out.ok /\ VariantsReadable(res.idl_enum)
    /\ Len(res.idl_enum.variants) = 3
    /\ DeclaredPayload(res.idl_enum.variants[1]) = "positional"
    /\ DeclaredPayload(res.idl_enum.variants[2]) = "named"
    /\ DeclaredPayload(res.idl_enum.variants[3]) = "none"
    /\ ParseCon(res.out.lay, <<2>>).val.nm = res.idl_enum.variants[3].name

\* C13: every variant is laid out by the payload it declares: named fields
\* when its field list is non-empty and its first element carries a name,
\* positional fields when the list is non-empty and of bare types, no payload
\* when the list is absent or empty.
C13_PayloadClassification ==
    (res.op = "enum" /\ VariantsReadable(res.idl_enum))
        => /\ res.out.ok
           /\ Len(res.out.lay.sub) = Len(res.idl_enum.variants)
           /\ \A i \in 1..Len(res.idl_enum.variants) :
                 LaidOutPayload(res.out.lay.sub[i]) = DeclaredPayload(res.idl_enum.variants[i])

\* C13: the case reached: a variant whose fields are dicts carrying 'name',
\* and no layout but the AttributeError of field.name.
C13_DictFieldsReached ==
    /\ res.op = "enum" /\ VariantsReadable(res.idl_enum)
    /\ \E i \in 1..Len(res.idl_enum.variants) :
          /\ DeclaredPayload(res.idl_enum.variants[i]) = "named"
          /\ res.idl_enum.variants[i].flds[1].ik = "mapfield"
    /\ ~res.out.ok
    /\ res.out.err = Err("AttributeError", "name")

\* C14: the layout of a struct definition with fields f1..fn holds one layout
\* per declared field, the layout of fi at place i.
C14_FieldOrder ==
    (res.op = "typedef" /\ res.out.ok)
        => /\ res.out.lay.k = "DataclassStruct"
           /\ res.out.lay.sub[1].k = "CStruct"
           /\ Len(res.out.lay.sub[1].sub) = Len(FieldsOf(res.typedef))
           /\ \A i \in 1..Len(FieldsOf(res.typedef)) :
                 res.out.lay.sub[1].sub[i]
                     = _field_layout(FieldsOf(res.typedef)[i], res.types, res.cache,
                                     RecursionLimit).lay

\* C14: the case reached: a layout of two fields of different names and
\* types, the second a reference to a defined type.
C14_TwoFieldsReached ==
    /\ res.op = "typedef" /\ res.out.ok
    /\ Len(FieldsOf(res.typedef)) = 2
    /\ FieldsOf(res.typedef)[1].ty.k = "simple"
    /\ RefersTo(res.typedef, 2, "E")
    /\ res.out.lay.sub[1].sub[1].nm = snake(FieldsOf(res.typedef)[1].name)
    /\ res.out.lay.sub[1].sub[2].sub[1].k = "Enum"

\* The struct has a field of exactly its own type.
SelfContained(typedef) ==
    \E i \in 1..Len(FieldsOf(typedef)) : RefersTo(typedef, i, typedef.name)

\* C17: deriving the layout of a struct that has a field of exactly its own
\* type fails fast: it ends with an error the derivation raises itself, not
\* with the interpreter's RecursionError that ends a recursion without bound.
C17_SelfContainmentFailsFast ==
    (res.op = "typedef" /\ SelfContained(res.typedef))
        => (~res.out.ok /\ res.out.err.e # "RecursionError")

\* C17: the case reached: the types list holds the definition, resolution
\* enters it again at every level of nesting, and the call ends only when
\* the recursion limit is exhausted, with RecursionError.
C17_RecursionErrorReached ==
    /\ res.op = "typedef" /\ SelfContained(res.typedef)
    /\ Len(Filtered(res.types, res.typedef.name)) = 1
    /\ ~res.out.ok
    /\ res.out.err.e = "RecursionError"

(***************************************************************************)
(* Properties of the account coder's encode, checked under Spec.           *)
(***************************************************************************)
\* The bytes the claim describes for (name, data): the discriminator
\* registered for name, then data serialized with the layout registered for
\* name.
OwnFrame(name, data) ==
    DictGet(coder.acc_name_to_discriminator, name)
        \o BuildCon(DictGet(coder._accounts_layout, name), data).bytes

\* C15: encoding (name, payload) fails when name is not in the
\* name-to-discriminator index, and otherwise gives the 8-byte discriminator
\* registered for name followed by the payload serialized with the layout
\* registered for that name.
C15_Encode ==
    (AccountsOk /\ res.op = "encode")
        => IF ~DictHas(coder.acc_name_to_discriminator, res.name)
           THEN ~res.built.ok
           ELSE /\ res.built.ok
                /\ Len(DictGet(coder.acc_name_to_discriminator, res.name))
                       = ACCOUNT_DISCRIMINATOR_SIZE
                /\ BuildCon(DictGet(coder._accounts_layout, res.name), res.data).ok
                /\ res.built.bytes = OwnFrame(res.name, res.data)

\* C15: the case reached: the name is registered with a discriminator of 8
\* bytes that another name shares, and the payload was not serialized with
\* the layout of the name.
C15_OtherLayoutReached ==
    /\ AccountsOk /\ res.op = "encode"
    /\ DictHas(coder.acc_name_to_discriminator, res.name)
    /\ Len(DictGet(coder.acc_name_to_discriminator, res.name)) = ACCOUNT_DISCRIMINATOR_SIZE
    /\ Shared(res.name)
    /\ BuildCon(DictGet(coder._accounts_layout, res.name), res.data).ok
    /\ (~res.built.ok \/ res.built.bytes # OwnFrame(res.name, res.data))

(***************************************************************************)
(* Properties of repeated derivations, checked under SpecMemo.             *)
(***************************************************************************)
\* C16: two derivations of the layout of the same named type (same name, same
\* definition), anywhere in a sequence of derivations, return the same layout
\* instance, for struct definitions as for enum definitions.
C16_SameInstance ==
    res.op = "derive"
        => \A i, j \in 1..Len(res.log) :
              (res.log[i].typedef = res.log[j].typedef /\ res.log[i].ok /\ res.log[j].ok)
                  => res.log[i].inst = res.log[j].inst

\* C16: the case reached: the layout of one struct definition derived twice,
\* and two different objects returned.
C16_StructTwiceReached ==
    /\ res.op = "derive"
    /\ \E i, j \in 1..Len(res.log) :
          /\ i < j
          /\ res.log[i].typedef = res.log[j].typedef
          /\ TypedefType(res.log[i].typedef).kind = "struct"
          /\ res.log[i].ok /\ res.log[j].ok
          /\ res.log[i].inst # res.log[j].inst

(***************************************************************************)
(* Properties of the adapter's getters, checked under SpecCompat.          *)
(***************************************************************************)
\* The truth value of the first of the flags spec and legacy that the record
\* has, FALSE when it has neither.
FlagOf(account, spec, legacy) ==
    IF account[spec] # "absent" THEN account[spec] = "True"
    ELSE IF account[legacy] # "absent" THEN account[legacy] = "True"
    ELSE FALSE

\* C18: for an object-form record get_account_writable returns the truth
\* value of writable when the record has it, otherwise of isMut when it has
\* that, otherwise false; get_account_signer does the same with signer, then
\* isSigner.
C18_ObjectFlags ==
    /\ (res.op = "writable" /\ res.account.form = "obj")
           => res.out = FlagOf(res.account, "writable", "isMut")
    /\ (res.op = "signer" /\ res.account.form = "obj")
           => res.out = FlagOf(res.account, "signer", "isSigner")

\* C18: the case reached: an object with both spellings of the flag, of
\* different values, and the value of the spec spelling returned.
C18_BothSpellingsReached ==
    /\ res.op = "writable" /\ res.account.form = "obj"
    /\ res.account.writable = "False" /\ res.account.isMut = "True"
    /\ res.out = FALSE

\* C19: for a map-form record get_account_writable returns true when the
\* 'writable' entry is true and get_account_signer returns true when the
\* 'signer' entry is true.
C19_MapFlags ==
    /\ (res.op = "writable" /\ res.account.form = "map" /\ res.account.writable = "True")
           => res.out = TRUE
    /\ (res.op = "signer" /\ res.account.form = "map" /\ res.account.signer = "True")
           => res.out = TRUE

\* C19: the case reached: a dict whose 'writable' entry is True, and False
\* returned for it.
C19_MapIgnoredReached ==
    /\ res.op = "writable" /\ res.account.form = "map"
    /\ res.account.writable = "True"
    /\ res.out = FALSE

\* C20: get_defined_type_name returns the string for a str, the name
\* attribute for an object carrying one and the 'name' entry for a dict
\* carrying one; for every other input it raises the 'Unknown defined type
\* format' error and returns no name.
C20_DefinedName ==
    res.op = "defname"
        => IF res.arg.form \in {"str", "obj", "map"}
           THEN res.out.ok /\ res.out.name = res.arg.nm
           ELSE ~res.out.ok /\ res.out.err = "Unknown defined type format"
                    /\ res.out.name = ""

\* C20: the case reached: a dict without a 'name' entry, and the error.
C20_BareMapReached ==
    /\ res.op = "defname" /\ res.arg.form = "mapbare"
    /\ ~res.out.ok

\* What the specification has a getter return for a record: the discriminator
\* when the record carries a non-empty one, absent otherwise.
Extracted(record) ==
    IF record.hasDisc /\ record.disc # <<>> THEN DiscSome(record.disc) ELSE DiscNone

\* C21: for an object-form record each of get_account_discriminator,
\* get_instruction_discriminator and get_event_discriminator returns the
\* discriminator attribute unchanged when it is non-empty and None when the
\* attribute is missing or empty.
C21_ObjectDiscriminator ==
    (res.op = "getdisc" /\ res.arg.form = "obj") => res.out = Extracted(res.arg)

\* C21: the case reached: an object whose discriminator attribute is empty,
\* and None returned by the event getter.
C21_EmptyAttributeReached ==
    /\ res.op = "getdisc" /\ res.fn = "event" /\ res.arg.form = "obj"
    /\ res.arg.hasDisc /\ res.arg.disc = <<>>
    /\ res.out = DiscNone

\* C22: for a dict record each getter returns the 'discriminator' entry when
\* it is a non-empty sequence and None when it is missing or empty, as for an
\* object of the same content.
C22_MapDiscriminator ==
    (res.op = "getdisc" /\ res.arg.form = "map") => res.out = Extracted(res.arg)

\* C22: the case reached: a dict with an 8-byte 'discriminator' entry, and
\* None returned by the instruction getter.
C22_MapEntryIgnoredReached ==
    /\ res.op = "getdisc" /\ res.fn = "instruction" /\ res.arg.form = "map"
    /\ res.arg.hasDisc /\ res.arg.disc = D1
    /\ res.out = DiscNone

\* The metadata of the document carries a spec value.
CarriesSpec(idl) ==
    idl.metadata.kind \in {"obj", "map"} /\ idl.metadata.spec \notin {"absent", "None"}

\* Some record of the list carries a discriminator.
SomeDiscriminator(records) ==
    \E i \in 1..Len(records) : records[i].hasDisc /\ records[i].disc # <<>>

\* C23: detect_idl_format returns 'new' for every IDL whose metadata carries a
\* spec value, and 'old' for every IDL whose metadata carries none, whose
\* address is absent or empty and none of whose instruction or account
\* records carries a discriminator.
C23_DialectDetection ==
    res.op = "detect" =>
        /\ CarriesSpec(res.idl) => res.out = "new"
        /\ (/\ ~CarriesSpec(res.idl)
            /\ res.idl.address \in {"absent", ""}
            /\ ~SomeDiscriminator(res.idl.instructions)
            /\ ~SomeDiscriminator(res.idl.accounts)) => res.out = "old"

\* C23: the case reached: an IDL object whose metadata is a dict with a
\* 'spec' entry, and 'old' returned for it.
C23_DictMetadataReached ==
    /\ res.op = "detect" /\ res.idl.form = "obj"
    /\ res.idl.metadata.kind = "map" /\ res.idl.metadata.spec = "0.1.0"
    /\ res.out = "old"

\* Field i refers to the defined type name behind an Option or a Vec.
MediatedRef(typedef, i, name) ==
    /\ FieldsOf(typedef)[i].ik \in {"objfield", "mapfield"}
    /\ FieldsOf(typedef)[i].ty.k \in {"option", "vec"}
    /\ FieldsOf(typedef)[i].ty.sub[1].k = "defined"
    /\ FieldsOf(typedef)[i].ty.sub[1].nm = name

\* The struct refers to its own type behind an Option or a Vec, and every
\* other field is of a primitive type.
MediatedOnly(typedef) ==
    /\ \E i \in 1..Len(FieldsOf(typedef)) : MediatedRef(typedef, i, typedef.name)
    /\ \A i \in 1..Len(FieldsOf(typedef)) :
          \/ MediatedRef(typedef, i, typedef.name)
          \/ /\ FieldsOf(typedef)[i].ik \in {"objfield", "mapfield"}
             /\ FieldsOf(typedef)[i].ty.k = "simple"

\* C24: deriving the layout of a struct that refers to its own type only
\* behind an Option or a Vec, with the definition in the types list,
\* terminates and returns a layout.
C24_MediatedSelfReference ==
    (/\ res.op = "typedef" /\ MediatedOnly(res.typedef)
     /\ Len(Filtered(res.types, res.typedef.name)) = 1) => res.out.ok

\* C24: the case reached: the only field is an Option of the struct's own
\* type, the types list holds the definition, and the call ends with
\* RecursionError.
C24_OptionRecursionReached ==
    /\ res.op = "typedef"
    /\ Len(FieldsOf(res.typedef)) = 1
    /\ MediatedRef(res.typedef, 1, res.typedef.name)
    /\ FieldsOf(res.typedef)[1].ty.k = "option"
    /\ res.types = <<res.typedef>>
    /\ ~res.out.ok /\ res.out.err.e = "RecursionError"

\* C25: when two callers resolve the same cache key concurrently, the layout
\* for the key is computed at most once, and once both have returned they
\* hold the same instance, the one left in the cache.
C25_CriticalSection ==
    res.op = "resolve" =>
        /\ res.computed <= 1
        /\ (\A t \in Threads : res.pc[t] = "done")
              => (res.got[1] = res.got[2] /\ res.got[1] = res.owner)

\* C25: the case reached: both callers missed, both computed, both stored,
\* and the first caller holds an instance that is not the one in the cache.
C25_ComputedTwiceReached ==
    /\ res.op = "resolve"
    /\ \A t \in Threads : res.pc[t] = "done"
    /\ res.computed = 2
    /\ res.got[1] # res.got[2]
    /\ res.got[1] # res.owner

\* The calls made on a constructed coder.
CoderCalls == {"encode", "roundtrip", "decode", "both", "evparse"}

\* The indexes and layouts of a constructed coder.
Indexes(c) ==
    IF c.kind = "accounts"
    THEN <<c.acc_name_to_discriminator, c.discriminator_to_acc_name,
           c._accounts_layout, c.discriminator_to_layout>>
    ELSE <<c.discriminators, c.layouts, c.discriminator_to_layout>>

\* C26: every encode or decode call on a constructed AccountsCoder or
\* EventCoder, successful or failing, leaves the coder's name-to-discriminator
\* index, discriminator-to-name index and per-name layouts as they were.
C26_NoMutation ==
    [][((AccountsOk \/ EventsOk) /\ res' # res /\ res'.op \in CoderCalls)
          => (coder'.kind = coder.kind /\ coder'.st = coder.st
              /\ Indexes(coder') = Indexes(coder))]_vars

\* C26: the case reached: an encode call that failed on a name the coder
\* does not know, the coder still constructed.
C26_FailedEncodeReached ==
    /\ AccountsOk
    /\ res.op = "encode" /\ ~res.built.ok
    /\ ~DictHas(coder.acc_name_to_discriminator, res.name)

\* C27: after any sequence of derivations over several types lists,
\* _handle_enum_variants(idl_enum, types, name) returns (or raises) what
\* _handle_enum_variants_no_cache(idl_enum, types, name) returns (or raises)
\* for the same three arguments.
C27_CacheTransparent ==
    res.op = "henum" =>
        /\ res.out.ok = res.direct.ok
        /\ res.out.ok => res.out.lay = res.direct.lay

\* C27: the case reached: the layout returned is one built earlier against
\* a types list that defines A differently, and not the one the uncached
\* derivation gives for this call.
C27_StaleLayoutReached ==
    /\ res.op = "henum"
    /\ res.out.ok /\ res.direct.ok
    /\ res.out.lay # res.direct.lay
    /\ res.idl_enum = EnumRefA

\* C28: for every account record of the IDL, the discriminator constant
\* gen_account_code emits equals the discriminator the AccountsCoder of that
\* IDL registers for the account, with or without a precomputed
\* discriminator on the record.
C28_GeneratedDiscriminator ==
    (res.op = "gen" /\ AccountsOk /\ res.out.ok)
        => res.out.disc = DictGet(coder.acc_name_to_discriminator, res.acc.name)

\* C28: the case reached: the only record of the IDL carries a precomputed
\* discriminator of 8 bytes, the coder registers it, and the generated
\* constant is another value.
C28_PrecomputedIgnoredReached ==
    /\ res.op = "gen" /\ AccountsOk /\ res.out.ok
    /\ Len(coder.idl.accounts) = 1
    /\ res.acc.hasDisc /\ res.acc.disc = D1
    /\ DictGet(coder.acc_name_to_discriminator, res.acc.name) = D1
    /\ res.out.disc # D1

\* The layout of a struct with zero fields, named name.
EmptyStructLayout(name) ==
    _typedef_layout(TypeDef("obj", name, TyStruct("obj", <<>>)), <<>>, name, {},
                    RecursionLimit).lay

\* What deriving the definition typedef gives, against types and cache.
DerivedFrom(typedef, types, cache) ==
    [ok |-> _typedef_layout_without_field_name(typedef, types, cache, RecursionLimit).ok,
     err |-> _typedef_layout_without_field_name(typedef, types, cache, RecursionLimit).err,
     lay |-> _typedef_layout_without_field_name(typedef, types, cache, RecursionLimit).lay]

\* No event of the IDL embeds fields or has a definition of its name.
AllBodiless(idl) ==
    \A i \in 1..Len(idl.events) :
        idl.events[i].body = "none" /\ FirstNamed(idl.types, idl.events[i].name, 1) = 0

\* C29: for an event record without fields, _event_layout gives what the
\* first definition of the event's name in the IDL's types list gives, and
\* when there is no such definition it returns the layout of a struct with
\* zero fields and does not raise; an EventCoder over such events is
\* constructed.
C29_EventBody ==
    /\ (res.op = "evlayout" /\ res.event.body = "none") =>
          IF FirstNamed(res.idl.types, res.event.name, 1) # 0
          THEN res.out = DerivedFrom(res.idl.types[FirstNamed(res.idl.types, res.event.name, 1)],
                                     res.idl.types, res.cache)
          ELSE res.out.ok /\ res.out.lay = EmptyStructLayout(res.event.name)
    /\ (coder.kind = "events" /\ AllBodiless(coder.idl)) => coder.st = "ok"

\* C29: the case reached: an event without fields, a types list that is not
\* empty and has no definition of the event's name, and the empty struct
\* returned.
C29_MissingBodyReached ==
    /\ res.op = "evlayout" /\ res.event.body = "none"
    /\ Len(res.idl.types) > 0
    /\ FirstNamed(res.idl.types, res.event.name, 1) = 0
    /\ res.out.ok /\ res.out.lay = EmptyStructLayout(res.event.name)

\* What _type_layout gives for type_, against types and cache.
TargetLayout(type_, types, cache) ==
    [ok |-> _type_layout(type_, types, cache, RecursionLimit).ok,
     err |-> _type_layout(type_, types, cache, RecursionLimit).err,
     lay |-> _type_layout(type_, types, cache, RecursionLimit).lay]

\* C30: the layout derived for an alias definition, an object or a dict, is
\* the layout _type_layout derives for the alias's target with the same
\* types list, and the derivation fails exactly when that one fails.
C30_AliasTransparent ==
    res.op = "alias" =>
        res.out = TargetLayout(TypedefType(res.typedef).value, res.types, res.cache)

\* C30: the case reached: a dict definition whose type is a dict of kind
\* 'alias' with a defined struct as target, and the struct's layout
\* returned.
C30_MapAliasReached ==
    /\ res.op = "alias"
    /\ res.typedef.form = "map" /\ TypedefType(res.typedef).form = "map"
    /\ TypedefType(res.typedef).value = Defined("A")
    /\ res.out.ok /\ res.out.lay.k # "prim"

====
